---- MODULE Spec2Model ----
(***************************************************************************)
(* Minutes pipeline of api/summarize.ts (CivicClerk revision, lines 1-210):*)
(* getMeetingLinks -> getPdfText -> summarizeHousingTopics -> handler.     *)
(*                                                                         *)
(* A JavaScript string is modelled as a sequence of one-character strings. *)
(* One extra element, FILL, stands for a run of FillRun copies of the      *)
(* letter "x" (no keyword contains an x), so that texts of the size of the *)
(* excerpt budget stay representable; StrLen counts it as FillRun.         *)
(***************************************************************************)
EXTENDS Integers, Sequences, FiniteSets, TLC

\* ------------------------------------------------------------------ bounds
\* length of the run of "x" one FILL element stands for
FillRun == 17496
\* pages of a document drawn as input of the selector
MaxPages == 3
\* days the Locator scans (daysToScan is 90 in the source)
DaysToScan == 2

\* ------------------------------------------------------------------- state
VARIABLE
  pipe          \* per located link: the state of its async callback (178-195)

\* ----------------------------------------------------------------- strings
FILL == "#x"

UpperChars == <<"A", "B", "C", "D", "E", "F", "G", "H", "I", "J", "K", "L", "M", "N", "O", "P", "Q", "R", "S", "T", "U", "V", "W", "X", "Y", "Z">>
LowerChars == <<"a", "b", "c", "d", "e", "f", "g", "h", "i", "j", "k", "l", "m", "n", "o", "p", "q", "r", "s", "t", "u", "v", "w", "x", "y", "z">>

\* String.prototype.length
RECURSIVE StrLen(_)
StrLen(s) ==
  IF s = <<>> THEN 0
  ELSE (IF Head(s) = FILL THEN FillRun ELSE 1) + StrLen(Tail(s))

\* the regular expression class \s, on the characters of the model
IsSpace(c) == c \in {" ", "\n", "\t", "\r"}

ToLowerChar(c) ==
  IF \E k \in 1..Len(UpperChars) : UpperChars[k] = c
  THEN LowerChars[CHOOSE k \in 1..Len(UpperChars) : UpperChars[k] = c]
  ELSE c

\* String.prototype.toLowerCase
ToLowerCase(s) == [k \in 1..Len(s) |-> ToLowerChar(s[k])]

\* String.prototype.startsWith
StartsWith(s, p) == Len(s) >= Len(p) /\ SubSeq(s, 1, Len(p)) = p

\* String.prototype.includes
Includes(s, k) ==
  \E i \in 0..(Len(s) - Len(k)) : SubSeq(s, i + 1, i + Len(k)) = k

\* String.prototype.trim
RECURSIVE TrimStart(_)
TrimStart(s) ==
  IF s # <<>> /\ IsSpace(Head(s)) THEN TrimStart(Tail(s)) ELSE s

RECURSIVE TrimEnd(_)
TrimEnd(s) ==
  IF s # <<>> /\ IsSpace(s[Len(s)]) THEN TrimEnd(SubSeq(s, 1, Len(s) - 1)) ELSE s

Trim(s) == TrimEnd(TrimStart(s))

\* Array.prototype.join
RECURSIVE Join(_, _)
Join(parts, sep) ==
  IF parts = <<>> THEN <<>>
  ELSE IF Len(parts) = 1 THEN parts[1]
  ELSE parts[1] \o sep \o Join(Tail(parts), sep)

\* End of the match of /\n\s*\n/ that starts at position i of s, or 0 when
\* there is none: \s* is greedy, so the match ends at the last newline of the
\* white-space run that follows position i.
BlankMatchEnd(s, i) ==
  IF s[i] # "\n" THEN 0
  ELSE LET ends == {j \in (i + 1)..Len(s) :
                      /\ s[j] = "\n"
                      /\ \A k \in (i + 1)..(j - 1) : IsSpace(s[k])}
       IN IF ends = {} THEN 0 ELSE CHOOSE j \in ends : \A k \in ends : k <= j

\* minutesText.split(/\n\s*\n/): the pieces between the leftmost,
\* non-overlapping matches, empty pieces included
RECURSIVE SplitFrom(_, _, _)
SplitFrom(s, start, i) ==
  IF i > Len(s) THEN << SubSeq(s, start, Len(s)) >>
  ELSE LET e == BlankMatchEnd(s, i)
       IN IF e = 0 THEN SplitFrom(s, start, i + 1)
          ELSE << SubSeq(s, start, i - 1) >> \o SplitFrom(s, e + 1, e + 1)

SplitParagraphs(s) == SplitFrom(s, 1, 1)

\* ------------------------------------------------------- getPdfText (76-101)
\* A text item of a page: pdf.js text items carry str, marked-content items
\* do not.
TextItem(chars) == [hasStr |-> TRUE, str |-> chars]
MarkedItem == [hasStr |-> FALSE, str |-> <<>>]

\* A page: getPage / getTextContent either rejects or yields items.
Page(items) == [fails |-> FALSE, items |-> items]
BadPage == [fails |-> TRUE, items |-> <<>>]

\* textContent.items.map(item => 'str' in item ? item.str : '').join(' ')
PageText(page) ==
  Join([k \in 1..Len(page.items) |->
          IF page.items[k].hasStr THEN page.items[k].str ELSE <<>>], <<" ">>)

\* the page loop of getPdfText: threw is set when a page rejects, which leaves
\* the loop through the catch block
RECURSIVE PageLoop(_, _)
PageLoop(pages, fullText) ==
  IF pages = <<>> THEN [threw |-> FALSE, text |-> fullText]
  ELSE IF Head(pages).fails THEN [threw |-> TRUE, text |-> fullText]
  ELSE PageLoop(Tail(pages), fullText \o PageText(Head(pages)) \o <<"\n", "\n">>)

\* what the document server and pdf.js answer for one url
\* (ct is the content-type header of the response)
NetError ==
  [net |-> "error", ok |-> FALSE, ct |-> <<>>, parses |-> FALSE, pages |-> <<>>]
HttpError ==
  [net |-> "ok", ok |-> FALSE, ct |-> <<"t", "e", "x", "t", "/", "h", "t", "m", "l">>, parses |-> FALSE, pages |-> <<>>]
NotAPdf ==
  [net |-> "ok", ok |-> TRUE, ct |-> <<"t", "e", "x", "t", "/", "h", "t", "m", "l">>, parses |-> FALSE, pages |-> <<>>]
Pdf(pages) ==
  [net |-> "ok", ok |-> TRUE, ct |-> <<"a", "p", "p", "l", "i", "c", "a", "t", "i", "o", "n", "/", "p", "d", "f">>, parses |-> TRUE,
   pages |-> pages]

\* lines 78-86: TRUE when the body of the response is handed to getDocument
HandsToParser(up) == up.net = "ok" /\ up.ok

\* getPdfText with the catch of line 97 rethrowing instead of returning ""
GetPdfTextRethrows(up) ==
  IF up.net = "error" \/ ~up.ok \/ ~up.parses
  THEN [threw |-> TRUE, text |-> <<>>]
  ELSE PageLoop(up.pages, <<>>)

\* getPdfText: [threw, text]; threw is always FALSE, every failure is caught
\* and answered by the empty string
GetPdfText(up) ==
  IF up.net = "error" THEN [threw |-> FALSE, text |-> <<>>]
  ELSE IF ~up.ok THEN [threw |-> FALSE, text |-> <<>>]
  ELSE IF ~up.parses THEN [threw |-> FALSE, text |-> <<>>]
  ELSE LET r == PageLoop(up.pages, <<>>)
       IN IF r.threw THEN [threw |-> FALSE, text |-> <<>>] ELSE r

\* ------------------------------------------- summarizeHousingTopics (107-165)
Sentinel == <<"N", "o", " ", "h", "o", "u", "s", "i", "n", "g", " ", "t", "o", "p", "i", "c", "s", " ", "f", "o", "u", "n", "d", ".">>
NoSummaryText == <<"C", "o", "u", "l", "d", " ", "n", "o", "t", " ", "g", "e", "n", "e", "r", "a", "t", "e", " ", "s", "u", "m", "m", "a", "r", "y", " ", "f", "r", "o", "m", " ", "e", "x", "c", "e", "r", "p", "t", "s", ".">>
ErrorText == <<"E", "r", "r", "o", "r", ":", " ", "C", "o", "u", "l", "d", " ", "n", "o", "t", " ", "g", "e", "n", "e", "r", "a", "t", "e", " ", "s", "u", "m", "m", "a", "r", "y", ".">>
ErrorPrefix == <<"E", "r", "r", "o", "r", ":">>

keywords == <<
  <<"h", "o", "u", "s", "i", "n", "g">>, <<"a", "f", "f", "o", "r", "d", "a", "b", "l", "e", " ", "h", "o", "u", "s", "i", "n", "g">>, <<"h", "o", "m", "e", "l", "e", "s", "s", "n", "e", "s", "s">>, <<"h", "o", "m", "e", "l", "e", "s", "s">>,
  <<"z", "o", "n", "i", "n", "g">>, <<"r", "e", "z", "o", "n", "i", "n", "g">>, <<"d", "e", "v", "e", "l", "o", "p", "m", "e", "n", "t">>, <<"l", "a", "n", "d", " ", "u", "s", "e">>,
  <<"g", "e", "n", "t", "r", "i", "f", "i", "c", "a", "t", "i", "o", "n">>, <<"s", "h", "e", "l", "t", "e", "r">>, <<"r", "e", "n", "t">>, <<"p", "r", "o", "p", "e", "r", "t", "y">>,
  <<"C", "D", "B", "G">>, <<"H", "O", "M", "E">>, <<"a", "p", "a", "r", "t", "m", "e", "n", "t">>, <<"c", "o", "n", "d", "o", "m", "i", "n", "i", "u", "m">>,
  <<"m", "u", "l", "t", "i", "-", "f", "a", "m", "i", "l", "y">>, <<"r", "e", "s", "i", "d", "e", "n", "t", "i", "a", "l">> >>

MAX_EXCERPT_LENGTH == 35000

\* keywords.some(keyword => lowerPara.includes(keyword))
MatchesKeyword(para) ==
  \E k \in 1..Len(keywords) : Includes(ToLowerCase(para), keywords[k])

\* the guard of line 108: !minutesText || minutesText.trim().length === 0
IsBlankText(minutesText) == minutesText = <<>> \/ StrLen(Trim(minutesText)) = 0

\* relevantExcerpts declared at module scope: it keeps what an earlier call
\* of the same invocation collected
LoopInitShared ==
  [relevantExcerpts |->
     IF \E i \in DOMAIN pipe : pipe[i].calls > 0
     THEN << pipe[CHOOSE i \in DOMAIN pipe : pipe[i].calls > 0].request >>
     ELSE <<>>,
   currentLength |-> 0, broke |-> FALSE]

\* state of the accumulation loop before its first iteration (119-121)
LoopInit == [relevantExcerpts |-> <<>>, currentLength |-> 0, broke |-> FALSE]

\* the budget test of line 126 written with >= instead of >
OverBudgetOffByOne(currentLength, para) ==
  currentLength + StrLen(para) >= MAX_EXCERPT_LENGTH

\* the budget test of line 126 applied to the paragraph alone
OverBudgetParagraphOnly(currentLength, para) ==
  StrLen(para) > MAX_EXCERPT_LENGTH

\* the budget test of line 126
OverBudget(currentLength, para) ==
  currentLength + StrLen(para) > MAX_EXCERPT_LENGTH

\* the loop of lines 123-132 with continue in place of break
LoopStepContinue(st, para) ==
  IF MatchesKeyword(para) /\ ~OverBudget(st.currentLength, para)
  THEN [relevantExcerpts |-> Append(st.relevantExcerpts, para),
        currentLength |-> st.currentLength + StrLen(para),
        broke |-> FALSE]
  ELSE st

\* one iteration of the loop of lines 123-132
LoopStep(st, para) ==
  IF st.broke THEN st
  ELSE IF MatchesKeyword(para)
  THEN IF OverBudget(st.currentLength, para)
       THEN [st EXCEPT !.broke = TRUE]
       ELSE [relevantExcerpts |-> Append(st.relevantExcerpts, para),
             currentLength |-> st.currentLength + StrLen(para),
             broke |-> FALSE]
  ELSE st

RECURSIVE LoopFrom(_, _)
LoopFrom(st, paragraphs) ==
  IF paragraphs = <<>> THEN st
  ELSE LoopFrom(LoopStep(st, Head(paragraphs)), Tail(paragraphs))

\* relevantExcerpts after the loop, for a text that passed the guard
RelevantExcerpts(minutesText) ==
  LoopFrom(LoopInit, SplitParagraphs(minutesText)).relevantExcerpts

\* relevantExcerpts.join("\n---\n"), the part of the prompt that varies
ExcerptsText(relevantExcerpts) ==
  Join(relevantExcerpts, <<"\n", "-", "-", "-", "\n">>)

\* what ai.models.generateContent answers: it rejects, or resolves with a
\* response whose text may be undefined
AiThrows == [throws |-> TRUE, hasText |-> FALSE, text |-> <<>>]
AiNoText == [throws |-> FALSE, hasText |-> FALSE, text |-> <<>>]
AiText(chars) == [throws |-> FALSE, hasText |-> TRUE, text |-> chars]

\* lines 153-164 without the fallback of line 160 for an empty summary
SummaryOfReplyNoFallback(reply) ==
  IF reply.throws THEN ErrorText
  ELSE Trim(IF reply.hasText THEN reply.text ELSE <<>>)

\* lines 153-164: the value summarizeHousingTopics returns for a reply
SummaryOfReply(reply) ==
  IF reply.throws THEN ErrorText
  ELSE LET summary == Trim(IF reply.hasText THEN reply.text ELSE <<>>)
       IN IF summary = <<>> THEN NoSummaryText ELSE summary

\* line 134 never taken: the service is called with an empty excerpt
NeverShortCircuits(relevantExcerpts) == FALSE

\* the test of line 134: relevantExcerpts.length === 0
ShortCircuits(relevantExcerpts) == Len(relevantExcerpts) = 0

\* TRUE when summarizeHousingTopics returns without calling the service
ReturnsWithoutCall(minutesText) ==
  IsBlankText(minutesText) \/ ShortCircuits(RelevantExcerpts(minutesText))

\* ------------------------------------------------------------------- dates
\* A calendar date is <<year, month, day>>.  DaysFromCivil / CivilFromDays
\* are the proleptic Gregorian day count that Date arithmetic works on.
DaysFromCivil(date) ==
  LET y == IF date[2] <= 2 THEN date[1] - 1 ELSE date[1]
      era == y \div 400
      yoe == y - era * 400
      mp == IF date[2] > 2 THEN date[2] - 3 ELSE date[2] + 9
      doy == (153 * mp + 2) \div 5 + date[3] - 1
      doe == yoe * 365 + yoe \div 4 - yoe \div 100 + doy
  IN era * 146097 + doe - 719468

CivilFromDays(days) ==
  LET z == days + 719468
      era == z \div 146097
      doe == z - era * 146097
      yoe == (doe - doe \div 1460 + doe \div 36524 - doe \div 146096) \div 365
      doy == doe - (365 * yoe + yoe \div 4 - yoe \div 100)
      mp == (5 * doy + 2) \div 153
      d == doy - (153 * mp + 2) \div 5 + 1
      m == IF mp < 10 THEN mp + 3 ELSE mp - 9
  IN << (IF m <= 2 THEN yoe + era * 400 + 1 ELSE yoe + era * 400), m, d >>

\* dateToScan.setDate(today.getDate() - i) (lines 32-33)
DateToScan(today, i) == CivilFromDays(DaysFromCivil(today) - i)

DigitChars == <<"0", "1", "2", "3", "4", "5", "6", "7", "8", "9">>

\* String(n) for n >= 0
RECURSIVE Decimal(_)
Decimal(n) ==
  IF n < 10 THEN << DigitChars[n + 1] >>
  ELSE Decimal(n \div 10) \o << DigitChars[(n % 10) + 1] >>

\* String(n).padStart(2, '0')
PadStart2(chars) == IF Len(chars) < 2 THEN <<"0">> \o chars ELSE chars

\* `${year}-${month}-${day}` (lines 35-38)
FormatDate(date) ==
  Decimal(date[1]) \o <<"-">> \o PadStart2(Decimal(date[2])) \o <<"-">>
    \o PadStart2(Decimal(date[3]))

DigitValue(c) == (CHOOSE k \in 1..10 : DigitChars[k] = c) - 1

RECURSIVE ParseDecimal(_)
ParseDecimal(chars) ==
  IF chars = <<>> THEN 0
  ELSE 10 * ParseDecimal(SubSeq(chars, 1, Len(chars) - 1))
         + DigitValue(chars[Len(chars)])

\* new Date(s).getTime() for a date-only ISO string YYYY-MM-DD (UTC midnight),
\* counted in days instead of milliseconds (a factor of 86400000, which
\* changes no comparison)
GetTime(s) ==
  DaysFromCivil(<< ParseDecimal(SubSeq(s, 1, 4)),
                   ParseDecimal(SubSeq(s, 6, 7)),
                   ParseDecimal(SubSeq(s, 9, 10)) >>)

\* the comparator of lines 71 and 200 with its operands swapped
CompareAscending(a, b) == GetTime(a.date) - GetTime(b.date)

\* (a, b) => new Date(b.date).getTime() - new Date(a.date).getTime()
CompareByDateDesc(a, b) == GetTime(b.date) - GetTime(a.date)

\* Array.prototype.sort with that comparator; the sort is stable
RECURSIVE InsertSorted(_, _)
InsertSorted(sorted, x) ==
  IF sorted = <<>> THEN << x >>
  ELSE IF CompareByDateDesc(Head(sorted), x) <= 0
       THEN << Head(sorted) >> \o InsertSorted(Tail(sorted), x)
       ELSE << x >> \o sorted

RECURSIVE SortByDate(_)
SortByDate(list) ==
  IF list = <<>> THEN <<>>
  ELSE InsertSorted(SortByDate(SubSeq(list, 1, Len(list) - 1)), list[Len(list)])

\* ---------------------------------------------------- getMeetingLinks (25-74)
apiBaseUrl == <<"h", "t", "t", "p", "s", ":", "/", "/", "a", "s", "h", "e", "v", "i", "l", "l", "e", ".", "c", "i", "v", "i", "c", "c", "l", "e", "r", "k", ".", "c", "o", "m">>

\* one entry of a meeting's Links array
LinkEntry(fileTypeName, url) ==
  [hasFileTypeName |-> TRUE, FileTypeName |-> fileTypeName, Url |-> url]
\* a meeting record; a malformed one has no Links array
Meeting(linkEntries) == [hasLinks |-> TRUE, Links |-> linkEntries]
MalformedMeeting == [hasLinks |-> FALSE, Links |-> <<>>]

\* what the listing source answers for one day's query
DayPending == [kind |-> "pending", isArray |-> FALSE, meetings |-> <<>>]
DayNetError == [kind |-> "neterror", isArray |-> FALSE, meetings |-> <<>>]
DayNotOk == [kind |-> "notok", isArray |-> FALSE, meetings |-> <<>>]
DayNotJson == [kind |-> "notjson", isArray |-> FALSE, meetings |-> <<>>]
DayJsonObject == [kind |-> "json", isArray |-> FALSE, meetings |-> <<>>]
DayJson(meetings) == [kind |-> "json", isArray |-> TRUE, meetings |-> meetings]

\* l.FileTypeName.toLowerCase().includes('minutes') && l.Url
IsMinutesLink(l) ==
  Includes(ToLowerCase(l.FileTypeName), <<"m", "i", "n", "u", "t", "e", "s">>) /\ l.Url # <<>>

\* meeting.Links.find(...): [threw, found, link].  Reading Links of a record
\* without one, or FileTypeName of an entry without one, throws a TypeError.
RECURSIVE FindMinutes(_)
FindMinutes(entries) ==
  IF entries = <<>> THEN [threw |-> FALSE, found |-> FALSE, Url |-> <<>>]
  ELSE IF ~Head(entries).hasFileTypeName
       THEN [threw |-> TRUE, found |-> FALSE, Url |-> <<>>]
  ELSE IF IsMinutesLink(Head(entries))
       THEN [threw |-> FALSE, found |-> TRUE, Url |-> Head(entries).Url]
  ELSE FindMinutes(Tail(entries))

\* the loop of lines 51-59 over one day's records, appending to the shared
\* links array; a throw ends the loop (it is caught by the .catch of line 62)
RECURSIVE PushMeetings(_, _, _)
PushMeetings(links, formattedDate, meetings) ==
  IF meetings = <<>> THEN links
  ELSE IF ~Head(meetings).hasLinks THEN links
  ELSE LET f == FindMinutes(Head(meetings).Links)
       IN IF f.threw THEN links
          ELSE PushMeetings(
                 IF f.found
                 THEN Append(links, [date |-> formattedDate,
                                     url |-> apiBaseUrl \o f.Url])
                 ELSE links,
                 formattedDate, Tail(meetings))

\* the two .then callbacks and the .catch of lines 42-64 for one day
DayThen(links, formattedDate, resp) ==
  IF resp.kind = "json" /\ resp.isArray
  THEN PushMeetings(links, formattedDate, resp.meetings)
  ELSE links

\* ------------------------------------------------------------ handler (167-210)
VARIABLES
  today,        \* new Date() of line 27
  hpc,          \* position of the handler: "idle", "locating", "running", "responded"
  dayResp,      \* per scanned day: the answer of the listing source, or DayPending
  links,        \* the links array of getMeetingLinks, in order of arrival
  meetingLinks, \* the value getMeetingLinks returned
  responses,    \* what was sent on res, in order
  fetches,      \* number of document fetches issued (line 78)
  sel,          \* one call of summarizeHousingTopics, stepped through its loop
  drv           \* the handler of a materials-page revision (part_003:80-170, part_002:153-284)

vars ==
  << today, hpc, dayResp, links, meetingLinks, pipe, responses, fetches, sel,
     drv >>

\* the handler of the materials-page revision is not running
DrvOff == [pc |-> "off"]

Days == 0..(DaysToScan - 1)

\* the dates "now" is drawn from: a new year's day and the day after a leap day
Todays == { <<2025, 1, 1>>, <<2024, 3, 1>> }

\* formattedDate of iteration i (lines 32-38)
FormattedDate(i) == FormatDate(DateToScan(today, i))

Null == [isNull |-> TRUE, date |-> <<>>, summary |-> <<>>, originalUrl |-> <<>>]

PendingUp ==
  [net |-> "pending", ok |-> FALSE, ct |-> <<>>, parses |-> FALSE, pages |-> <<>>]
NoReply == [throws |-> FALSE, hasText |-> FALSE, text |-> <<"?">>]

\* a per-link callback that has just issued its fetch
Launched ==
  [pc |-> "pdf", up |-> PendingUp, parsed |-> FALSE, minutesText |-> <<>>,
   request |-> <<>>, calls |-> 0, reply |-> NoReply, summaryText |-> <<>>,
   result |-> Null]

\* lines 186-194: what the callback returns for a summary text
ResultOf(link, summaryText) ==
  IF StartsWith(summaryText, ErrorPrefix) THEN Null
  ELSE [isNull |-> FALSE, date |-> link.date, summary |-> summaryText,
        originalUrl |-> link.url]

\* lines 179-184 up to the first await inside summarizeHousingTopics: the
\* callback after getPdfText settled with answer up
AfterPdf(p, link, up) ==
  LET r == GetPdfText(up)
      q == [p EXCEPT !.up = up, !.parsed = HandsToParser(up),
                     !.minutesText = r.text]
  IN IF r.threw THEN [q EXCEPT !.pc = "rejected"]
     ELSE IF r.text = <<>> THEN [q EXCEPT !.pc = "done", !.result = Null]
     ELSE IF ReturnsWithoutCall(r.text)
          THEN [q EXCEPT !.pc = "done", !.summaryText = Sentinel,
                         !.result = ResultOf(link, Sentinel)]
     ELSE [q EXCEPT !.pc = "ai", !.calls = p.calls + 1,
                    !.request = ExcerptsText(RelevantExcerpts(r.text))]

\* the callback after generateContent settled with reply
AfterAi(p, link, reply) ==
  [p EXCEPT !.pc = "done", !.reply = reply,
            !.summaryText = SummaryOfReply(reply),
            !.result = ResultOf(link, SummaryOfReply(reply))]

\* results passed on without the filter of line 198
ValidSummariesKeepsNull(results) ==
  [k \in 1..Len(results) |->
     [date |-> results[k].date, summary |-> results[k].summary,
      originalUrl |-> results[k].originalUrl]]

\* results.filter(s => s !== null) (line 198)
RECURSIVE ValidSummaries(_)
ValidSummaries(results) ==
  IF results = <<>> THEN <<>>
  ELSE IF Head(results).isNull THEN ValidSummaries(Tail(results))
  ELSE << [date |-> Head(results).date, summary |-> Head(results).summary,
           originalUrl |-> Head(results).originalUrl] >>
         \o ValidSummaries(Tail(results))

OkResponse(list) ==
  [status |-> 200, isList |-> TRUE, list |-> list, error |-> <<>>]
ErrorResponse ==
  [status |-> 500, isList |-> FALSE, list |-> <<>>,
   error |-> <<"F", "a", "i", "l", "e", "d", " ", "t", "o", " ", "p", "r", "o", "c", "e", "s", "s", " ", "m", "e", "e", "t", "i", "n", "g", " ", "s", "u", "m", "m", "a", "r", "i", "e", "s", ".">>]

\* the answer of line 175 in the shape the scraping revisions use
EmptyObjectResponse ==
  [status |-> 200, isList |-> FALSE, list |-> <<>>,
   error |-> <<"N", "o", " ", "M", "i", "n", "u", "t", "e", "s", " ", "l", "i", "n", "k", "s", " ", "f", "o", "u", "n", "d", ".">>]

\* res.status(200).json([]) of line 175
EmptyListResponse == OkResponse(<<>>)

\* line 175 without its return: the handler goes on to the fan-out
AfterEmptyNoReturn == "running"

\* the return of line 175
AfterEmpty == "responded"

\* ---- inputs of the handler's specification
\* the Url field of the minutes entry the source lists for day d
MinutesUrl(d) == <<"/", "m", "/">> \o Decimal(d) \o <<".", "p", "d", "f">>
MinutesMeeting(url) ==
  Meeting(<< LinkEntry(<<"A", "g", "e", "n", "d", "a">>, <<"/", "a", ".", "p", "d", "f">>), LinkEntry(<<"M", "i", "n", "u", "t", "e", "s">>, url) >>)
AgendaMeeting == Meeting(<< LinkEntry(<<"A", "g", "e", "n", "d", "a">>, <<"/", "a", ".", "p", "d", "f">>) >>)

\* the answers of the listing source to the query for day d
DayAnswers(d) ==
  { DayNetError, DayNotOk, DayNotJson, DayJsonObject, DayJson(<<>>),
    DayJson(<< AgendaMeeting >>), DayJson(<< MinutesMeeting(MinutesUrl(d)) >>) }

PageHousing == Page(<< TextItem(<<"A", "f", "f", "o", "r", "d", "a", "b", "l", "e">>), TextItem(<<"h", "o", "u", "s", "i", "n", "g">>) >>)
PageParking == Page(<< TextItem(<<"p", "a", "r", "k", "i", "n", "g">>) >>)
PageEmpty == Page(<<>>)
PageMarked == Page(<< MarkedItem >>)

DocAnswers ==
  { NetError, HttpError, NotAPdf, Pdf(<<>>), Pdf(<< PageMarked, PageEmpty >>),
    Pdf(<< PageParking >>),
    Pdf(<< PageHousing, PageParking >>), Pdf(<< PageHousing, BadPage >>) }

AiReplies ==
  { AiThrows, AiNoText, AiText(<<"C", "o", "u", "n", "c", "i", "l", " ", "a", "p", "p", "r", "o", "v", "e", "d", " ", "4", "0", " ", "u", "n", "i", "t", "s", ".">>),
    AiText(<<" ", "N", "o", " ", "h", "o", "u", "s", "i", "n", "g", " ", "t", "o", "p", "i", "c", "s", " ", "f", "o", "u", "n", "d", ".", "\n">>), AiText(<<"E", "r", "r", "o", "r", ":", " ", "q", "u", "o", "t", "a">>) }

\* the limit of links.slice(0, 5) in the earlier revision of getMeetingLinks
SliceLimit == 5

\* lines 71-73 with the slice of the earlier revision: the most recent ones
ReturnedLinksSliced(list) ==
  SubSeq(SortByDate(list), 1,
         IF Len(list) < SliceLimit THEN Len(list) ELSE SliceLimit)

\* lines 71-73 without the sort: the links in their order of arrival
ReturnedLinksUnsorted(list) == list

\* lines 71-73: what getMeetingLinks returns for the links array
ReturnedLinks(list) == SortByDate(list)

\* ---- actions
Init ==
  /\ today \in Todays
  /\ hpc = "locating"
  /\ dayResp = [d \in Days |-> DayPending]
  /\ links = <<>>
  /\ meetingLinks = <<>>
  /\ pipe = <<>>
  /\ responses = <<>>
  /\ fetches = 0
  /\ sel = [pc |-> "off"]
  /\ drv = DrvOff

\* one per-day promise of getMeetingLinks settles (lines 42-64)
DaySettles(d, resp) ==
  /\ hpc = "locating"
  /\ dayResp[d] = DayPending
  /\ dayResp' = [dayResp EXCEPT ![d] = resp]
  /\ links' = DayThen(links, FormattedDate(d), resp)
  /\ UNCHANGED << today, hpc, meetingLinks, pipe, responses, fetches, sel, drv >>

AllDaysSettled == \A d \in Days : dayResp[d] # DayPending

\* getMeetingLinks returns no link: lines 69-73 (the sort is in place) and
\* 172-176
LocatorReturnsNone ==
  /\ hpc = "locating"
  /\ AllDaysSettled
  /\ ReturnedLinks(links) = <<>>
  /\ links' = ReturnedLinks(links)
  /\ meetingLinks' = <<>>
  /\ responses' = Append(responses, EmptyListResponse)
  /\ hpc' = AfterEmpty
  /\ UNCHANGED << today, dayResp, pipe, fetches, sel, drv >>

\* getMeetingLinks returns links: lines 69-73, 172-174 and the map of line
\* 178, which runs every callback up to its fetch
LocatorReturnsLinks ==
  /\ hpc = "locating"
  /\ AllDaysSettled
  /\ ReturnedLinks(links) # <<>>
  /\ links' = ReturnedLinks(links)
  /\ meetingLinks' = ReturnedLinks(links)
  /\ pipe' = [i \in 1..Len(ReturnedLinks(links)) |-> Launched]
  /\ fetches' = fetches + Len(ReturnedLinks(links))
  /\ hpc' = "running"
  /\ UNCHANGED << today, dayResp, responses, sel, drv >>

\* getPdfText of link i settles and the callback runs on to its next await
PdfSettles(i, up) ==
  /\ hpc \in {"running", "responded"}
  /\ i \in DOMAIN pipe
  /\ pipe[i].pc = "pdf"
  /\ pipe' = [pipe EXCEPT ![i] = AfterPdf(pipe[i], meetingLinks[i], up)]
  /\ UNCHANGED << today, hpc, dayResp, links, meetingLinks, responses, fetches, sel, drv >>

\* generateContent of link i settles and the callback returns
AiSettles(i, reply) ==
  /\ hpc \in {"running", "responded"}
  /\ i \in DOMAIN pipe
  /\ pipe[i].pc = "ai"
  /\ pipe' = [pipe EXCEPT ![i] = AfterAi(pipe[i], meetingLinks[i], reply)]
  /\ UNCHANGED << today, hpc, dayResp, links, meetingLinks, responses, fetches, sel, drv >>

\* line 197 with Promise.race: settled as soon as one callback has
PromiseRaceSettled ==
  \E i \in DOMAIN pipe : pipe[i].pc \in {"rejected", "done"}

\* Promise.all of line 197 settles: it rejects as soon as one callback has
\* rejected (catch, 205-209) and resolves once all have returned (198-203)
PromiseAllSettled ==
  \/ \E i \in DOMAIN pipe : pipe[i].pc = "rejected"
  \/ \A i \in DOMAIN pipe : pipe[i].pc = "done"

HandlerSettles ==
  /\ hpc = "running"
  /\ PromiseAllSettled
  /\ responses' =
       Append(responses,
              IF \E i \in DOMAIN pipe : pipe[i].pc = "rejected"
              THEN ErrorResponse
              ELSE OkResponse(SortByDate(ValidSummaries(
                     [i \in DOMAIN pipe |-> pipe[i].result]))))
  /\ hpc' = "responded"
  /\ UNCHANGED << today, dayResp, links, meetingLinks, pipe, fetches, sel, drv >>

Next ==
  \/ \E d \in Days : \E resp \in DayAnswers(d) : DaySettles(d, resp)
  \/ LocatorReturnsNone
  \/ LocatorReturnsLinks
  \/ \E i \in DOMAIN pipe, up \in DocAnswers : PdfSettles(i, up)
  \/ \E i \in DOMAIN pipe, reply \in AiReplies : AiSettles(i, reply)
  \/ HandlerSettles

Spec == Init /\ [][Next]_vars

\* --------------------------- summarizeHousingTopics, stepped through its loop
PageBigRent == Page(<< TextItem(<<"r", "e", "n", "t">> \o << FILL >>) >>)
PageBigFill == Page(<< TextItem(<< FILL, FILL >>) >>)
PageHome == Page(<< TextItem(<<"H", "O", "M", "E">>), TextItem(<<"f", "u", "n", "d", "s">>) >>)
PageZoning == Page(<< TextItem(<<" ", "Z", "o", "n", "i", "n", "g", " ">>) >>)
PageBreak == Page(<< TextItem(<<"s", "h", "e", "l", "t", "e", "r">>), TextItem(<<"\n">>), TextItem(<<"\n">>), TextItem(<<"l", "o", "t">>) >>)

SelPages ==
  { PageHousing, PageParking, PageEmpty, PageBigRent, PageBigFill, PageHome,
    PageZoning, PageBreak }

\* the sequences over S of length at most n
RECURSIVE SeqsUpTo(_, _)
SeqsUpTo(S, n) ==
  IF n = 0 THEN { <<>> }
  ELSE LET shorter == SeqsUpTo(S, n - 1)
       IN shorter \cup { Append(q, x) : q \in shorter, x \in S }

\* the texts getPdfText can hand to the selector
SelTexts == { GetPdfText(Pdf(pages)).text : pages \in SeqsUpTo(SelPages, MaxPages) }

\* a page that is one matching paragraph longer than the budget, and a page
\* holding a long matching paragraph followed by a short one
PageHuge == Page(<< TextItem(<<"r", "e", "s", "i", "d", "e", "n", "t", "i", "a", "l">> \o << FILL, FILL >>) >>)
PageRentThenHousing ==
  Page(<< TextItem(<<"r", "e", "n", "t">> \o << FILL >>), TextItem(<<"\n">>), TextItem(<<"\n">>),
          TextItem(<<"h", "o", "u", "s", "i", "n", "g">>) >>)

\* texts with paragraphs near and over the budget
SelLongTexts ==
  { GetPdfText(Pdf(pages)).text :
      pages \in { << PageHuge >>, << PageHuge, PageHousing >>,
                  << PageHousing, PageHuge >>, << PageBigRent, PageRentThenHousing >> } }

SelReplies == { AiThrows, AiText(<<"C", "o", "u", "n", "c", "i", "l", " ", "a", "p", "p", "r", "o", "v", "e", "d", " ", "4", "0", " ", "u", "n", "i", "t", "s", ".">>), AiText(Sentinel) }

SelStart(text) ==
  [pc |-> "entry", minutesText |-> text, paragraphs |-> <<>>, idx |-> 1,
   st |-> LoopInit, calls |-> 0, request |-> <<>>, ret |-> <<>>]

InitSel ==
  /\ today = <<2025, 1, 1>>
  /\ hpc = "idle"
  /\ dayResp = [d \in Days |-> DayPending]
  /\ links = <<>>
  /\ meetingLinks = <<>>
  /\ pipe = <<>>
  /\ responses = <<>>
  /\ fetches = 0
  /\ sel \in { SelStart(text) : text \in SelTexts \cup SelLongTexts }
  /\ drv = DrvOff

handlerVars ==
  << today, hpc, dayResp, links, meetingLinks, pipe, responses, fetches, drv >>

\* lines 108-121: the guard, the split and the loop's initial state
SelEnter ==
  /\ sel.pc = "entry"
  /\ sel' = IF IsBlankText(sel.minutesText)
            THEN [sel EXCEPT !.pc = "done", !.ret = Sentinel]
            ELSE [sel EXCEPT !.pc = "loop",
                             !.paragraphs = SplitParagraphs(sel.minutesText)]
  /\ UNCHANGED handlerVars

\* one iteration of the loop of lines 123-132
SelLoopStep ==
  /\ sel.pc = "loop"
  /\ sel.idx <= Len(sel.paragraphs)
  /\ ~sel.st.broke
  /\ sel' = [sel EXCEPT !.st = LoopStep(sel.st, sel.paragraphs[sel.idx]),
                        !.idx = sel.idx + 1]
  /\ UNCHANGED handlerVars

\* the loop is left (end of the array or break); lines 134-157
SelLoopExit ==
  /\ sel.pc = "loop"
  /\ sel.idx > Len(sel.paragraphs) \/ sel.st.broke
  /\ sel' = IF ShortCircuits(sel.st.relevantExcerpts)
            THEN [sel EXCEPT !.pc = "done", !.ret = Sentinel]
            ELSE [sel EXCEPT !.pc = "call", !.calls = sel.calls + 1,
                             !.request = ExcerptsText(sel.st.relevantExcerpts)]
  /\ UNCHANGED handlerVars

\* generateContent settles; lines 159-164
SelReply(reply) ==
  /\ sel.pc = "call"
  /\ sel' = [sel EXCEPT !.pc = "done", !.ret = SummaryOfReply(reply)]
  /\ UNCHANGED handlerVars

NextSel ==
  \/ SelEnter
  \/ SelLoopStep
  \/ SelLoopExit
  \/ \E reply \in SelReplies : SelReply(reply)

SpecSel == InitSel /\ [][NextSel]_vars

\* ================================================================== claims
Responded == hpc = "responded" /\ Len(responses) >= 1
Sent == responses[1]

\* a keyword occurs in the lowercase form of the paragraph
HasKeyword(para) ==
  \E k \in 1..Len(keywords) :
    \E i \in 0..(Len(para) - Len(keywords[k])) :
      \A j \in 1..Len(keywords[k]) : ToLowerChar(para[i + j]) = keywords[k][j]

RECURSIVE TotalLen(_)
TotalLen(paras) ==
  IF paras = <<>> THEN 0 ELSE StrLen(Head(paras)) + TotalLen(Tail(paras))

IsPrefix(p, q) == Len(p) <= Len(q) /\ SubSeq(q, 1, Len(p)) = p

\* the list holds an entry for link i
HasEntry(i) ==
  \E k \in 1..Len(Sent.list) :
    /\ Sent.list[k].originalUrl = meetingLinks[i].url
    /\ Sent.list[k].date = meetingLinks[i].date

\* link i failed: network error, non-2xx, document or page parse failure, or
\* the summarization call threw
LinkFailed(i) ==
  \/ pipe[i].up.net = "error"
  \/ ~pipe[i].up.ok
  \/ ~pipe[i].up.parses
  \/ \E k \in 1..Len(pipe[i].up.pages) : pipe[i].up.pages[k].fails
  \/ pipe[i].calls > 0 /\ pipe[i].reply.throws

\* the outcome of link i processed on its own, from the answers it received
AloneResult(i) ==
  LET p == AfterPdf(Launched, meetingLinks[i], pipe[i].up)
  IN IF p.pc = "ai" THEN AfterAi(p, meetingLinks[i], pipe[i].reply).result
     ELSE p.result

RECURSIVE AloneResults(_)
AloneResults(i) ==
  IF i > Len(meetingLinks) THEN <<>>
  ELSE (IF LinkFailed(i) THEN <<>> ELSE << AloneResult(i) >>) \o AloneResults(i + 1)

\* C1: per-link isolation. Once the handler has answered a request that located
\* links, the answer is a 200 list, every link was processed to its end, every
\* failed link is absent from the list, and the list is exactly what the
\* links that did not fail yield when each is processed on its own.
C1_PerLinkIsolation ==
  (Responded /\ Len(meetingLinks) > 0) =>
    /\ Sent.status = 200 /\ Sent.isList
    /\ \A i \in DOMAIN pipe : pipe[i].pc = "done"
    /\ \A i \in DOMAIN pipe : LinkFailed(i) => ~HasEntry(i)
    /\ Sent.list = SortByDate(ValidSummaries(AloneResults(1)))

C1_Witness ==
  /\ Responded
  /\ \E i, j \in DOMAIN pipe :
       /\ LinkFailed(i) /\ ~LinkFailed(j)
       /\ pipe[i].up = HttpError
       /\ HasEntry(j) /\ ~HasEntry(i)

\* C2 as claimed: a link whose summarization result is the sentinel has no
\* entry carrying the sentinel in the returned list.
C2_SentinelOmitted ==
  (Responded /\ Sent.isList) =>
    \A i \in DOMAIN pipe :
      pipe[i].summaryText = Sentinel =>
        ~\E k \in 1..Len(Sent.list) :
            /\ Sent.list[k].originalUrl = meetingLinks[i].url
            /\ Sent.list[k].summary = Sentinel

\* the extracted text of link i has no paragraph that matches a keyword
EmptyExcerpt(i) ==
  /\ pipe[i].pc = "done"
  /\ \A k \in 1..Len(SplitParagraphs(pipe[i].minutesText)) :
       ~HasKeyword(SplitParagraphs(pipe[i].minutesText)[k])

\* C3 as claimed: a link whose extracted text has no keyword-matching
\* paragraph has no entry in the handler's output.
C3_EmptyExcerptOmitted ==
  (Responded /\ Sent.isList) =>
    \A i \in DOMAIN pipe : EmptyExcerpt(i) => ~HasEntry(i)

\* the document of link i could not be fetched or parsed, has no page, or has
\* no text on any page
NoExtractedText(i) ==
  /\ pipe[i].pc = "done"
  /\ \/ pipe[i].up.net = "error" \/ ~pipe[i].up.ok \/ ~pipe[i].up.parses
     \/ \E k \in 1..Len(pipe[i].up.pages) : pipe[i].up.pages[k].fails
     \/ \A k \in 1..Len(pipe[i].up.pages) : PageText(pipe[i].up.pages[k]) = <<>>

\* C4 as claimed: a link whose ExtractedText is empty (fetch failed, parse
\* failed, zero pages, or no text on any page) has no entry in the output, and
\* the handler answers with its normal 200 list.
C4_EmptyTextOmitted ==
  Responded =>
    \A i \in DOMAIN pipe :
      NoExtractedText(i) => (Sent.status = 200 /\ Sent.isList /\ ~HasEntry(i))

\* C5: at every step of the accumulation loop and after it, the characters
\* retained in the excerpt total at most MAX_EXCERPT_LENGTH, and currentLength
\* is that total.
C5_ExcerptWithinBudget ==
  sel.pc # "off" =>
    /\ TotalLen(sel.st.relevantExcerpts) <= MAX_EXCERPT_LENGTH
    /\ sel.st.currentLength = TotalLen(sel.st.relevantExcerpts)

C5_Witness ==
  /\ sel.pc = "call"
  /\ sel.st.broke
  /\ Len(sel.st.relevantExcerpts) >= 1
  /\ TotalLen(sel.st.relevantExcerpts) > MAX_EXCERPT_LENGTH \div 3

\* the paragraphs of the text that match a keyword, in original order
MatchingParagraphs(text) == SelectSeq(SplitParagraphs(text), HasKeyword)

ScenarioCText == GetPdfText(Pdf(<< PageHousing, PageParking >>)).text

\* C6: after the loop the excerpt is a prefix of the keyword-matching
\* paragraphs in original order (so it holds only matching paragraphs), it
\* lacks a matching paragraph only if the next one would exceed the budget,
\* and for the text "Affordable housing" / "parking" it is exactly the
\* housing paragraph.
C6_ExcerptIsFilteredPrefix ==
  sel.pc \in {"call", "done"} =>
    LET M == MatchingParagraphs(sel.minutesText)
        E == sel.st.relevantExcerpts
    IN /\ IsPrefix(E, M)
       /\ Len(E) < Len(M) =>
            TotalLen(E) + StrLen(M[Len(E) + 1]) > MAX_EXCERPT_LENGTH
       /\ sel.minutesText = ScenarioCText => E = << <<"A", "f", "f", "o", "r", "d", "a", "b", "l", "e", " ", "h", "o", "u", "s", "i", "n", "g">> >>

C6_Witness ==
  /\ sel.pc = "call"
  /\ sel.minutesText = ScenarioCText
  /\ sel.st.relevantExcerpts = << <<"A", "f", "f", "o", "r", "d", "a", "b", "l", "e", " ", "h", "o", "u", "s", "i", "n", "g">> >>
  /\ Len(sel.paragraphs) = 3

\* no paragraph of the text matches a keyword
NoParagraphMatches(text) ==
  \A k \in 1..Len(SplitParagraphs(text)) : ~HasKeyword(SplitParagraphs(text)[k])

\* C7: when no paragraph of the extracted text matches the keyword set,
\* summarizeHousingTopics never issues a call to the summarization service
\* and returns the sentinel.
C7_ShortCircuit ==
  (sel.pc # "off" /\ NoParagraphMatches(sel.minutesText)) =>
    /\ sel.calls = 0
    /\ sel.pc # "call"
    /\ sel.pc = "done" => sel.ret = Sentinel

C7_Witness ==
  /\ sel.pc = "done"
  /\ sel.minutesText = GetPdfText(Pdf(<< PageParking, PageHome >>)).text
  /\ sel.calls = 0

\* code unit order of the characters of a date string
DateChars == <<"-", "0", "1", "2", "3", "4", "5", "6", "7", "8", "9">>
CharCode(c) == CHOOSE k \in 1..Len(DateChars) : DateChars[k] = c

\* a >= b for strings
RECURSIVE StrGeq(_, _)
StrGeq(a, b) ==
  IF b = <<>> THEN TRUE
  ELSE IF a = <<>> THEN FALSE
  ELSE IF Head(a) = Head(b) THEN StrGeq(Tail(a), Tail(b))
  ELSE CharCode(Head(a)) > CharCode(Head(b))

\* C8: every 200 list the handler sends is sorted by date descending.
C8_SortedByDateDesc ==
  (Responded /\ Sent.isList) =>
    \A k \in 1..(Len(Sent.list) - 1) :
      StrGeq(Sent.list[k].date, Sent.list[k + 1].date)

C8_Witness ==
  /\ Responded
  /\ Len(Sent.list) >= 2
  /\ Sent.list[1].date # Sent.list[2].date
  /\ \E i, j \in DOMAIN pipe : i < j /\ pipe[i].calls = 1 /\ pipe[j].calls = 1

\* C9: the handler answers at most once; a finished handler has answered
\* exactly once, with a 200 list or with a 500 error object; no callback is
\* left rejected; and a handler that has not answered is locating, or has a
\* callback still awaiting an answer, or is about to answer.
C9_ExactlyOneResponse ==
  /\ Len(responses) <= 1
  /\ hpc = "responded" <=> Len(responses) = 1
  /\ \A k \in 1..Len(responses) :
       \/ responses[k].status = 200 /\ responses[k].isList
       \/ /\ responses[k].status = 500 /\ ~responses[k].isList
          /\ responses[k].error # <<>>
  /\ \A i \in DOMAIN pipe : pipe[i].pc # "rejected"
  /\ hpc \in {"locating", "running", "responded"}
  /\ hpc = "running" =>
       \/ \E i \in DOMAIN pipe : pipe[i].pc \in {"pdf", "ai"}
       \/ PromiseAllSettled

C9_Witness ==
  \/ Responded /\ Len(meetingLinks) = 0 /\ Sent.list = <<>>
       /\ \A d \in Days : dayResp[d] = DayJson(<< AgendaMeeting >>)
  \/ Responded /\ Len(meetingLinks) = 2 /\ Len(Sent.list) = 1

\* every per-day query failed with a network error or a non-success status
AllDayQueriesFailed ==
  \A d \in Days : dayResp[d].kind \in {"neterror", "notok"}

\* C10 as claimed: when every per-day query of the Locator fails, the caller
\* gets an error response and not the 200 empty list.
C10_TotalFailureIsError ==
  (Responded /\ AllDayQueriesFailed) =>
    (Sent.status # 200 /\ ~Sent.isList)

\* ------------------------------------------------------------ claims C11-C20

\* C11: when getMeetingLinks returned no link, the handler answers exactly
\* once, with status 200 and the empty list, and in that invocation no
\* document fetch was issued and no per-link callback (so no summarization
\* call) exists.
C11_NoLinksEmptyList ==
  (Responded /\ Len(meetingLinks) = 0) =>
    /\ Len(responses) = 1
    /\ Sent.status = 200 /\ Sent.isList /\ Sent.list = <<>>
    /\ fetches = 0
    /\ pipe = <<>>

C11_Witness ==
  /\ Responded /\ meetingLinks = <<>> /\ fetches = 0
  /\ \E d \in Days : dayResp[d] = DayJson(<< AgendaMeeting >>)
  /\ \E d \in Days : dayResp[d] = DayJson(<<>>)

\* the callback of link i is past the relevance selector
PastSelector(i) == pipe[i].pc \in {"ai", "done"} /\ pipe[i].minutesText # <<>>

SourcesOf(e) ==
  { i \in DOMAIN pipe :
      /\ ~pipe[i].result.isNull
      /\ meetingLinks[i].date = e.date
      /\ meetingLinks[i].url = e.originalUrl
      /\ pipe[i].summaryText = e.summary }

AcceptableType(ct) ==
  \/ Includes(ToLowerCase(ct), <<"p", "d", "f">>)
  \/ Includes(ToLowerCase(ct), <<"o", "c", "t", "e", "t", "-", "s", "t", "r", "e", "a", "m">>)

\* C19 as claimed: the body of a response is handed to document parsing only
\* when the request succeeded with a 2xx status and a content type that
\* contains the pdf marker or the octet-stream marker.
C19_ParsesOnlyAcceptable ==
  \A i \in DOMAIN pipe :
    pipe[i].parsed =>
      /\ pipe[i].up.net = "ok"
      /\ pipe[i].up.ok
      /\ AcceptableType(pipe[i].up.ct)

\* the text of the pages that did not fail, in page order
RECURSIVE TextOfGoodPages(_)
TextOfGoodPages(pages) ==
  IF pages = <<>> THEN <<>>
  ELSE (IF Head(pages).fails THEN <<>>
        ELSE PageText(Head(pages)) \o <<"\n", "\n">>)
       \o TextOfGoodPages(Tail(pages))

\* C20 as claimed: for a document that was opened, the text getPdfText
\* returned is the text of every page that did not fail, in page order (empty
\* for a document of no page); for a document that could not be opened it is
\* empty; and no callback is left rejected.
C20_PageLevelTolerance ==
  \A i \in DOMAIN pipe :
    /\ pipe[i].pc # "rejected"
    /\ pipe[i].pc \in {"ai", "done"} =>
         IF pipe[i].parsed /\ pipe[i].up.parses
         THEN pipe[i].minutesText = TextOfGoodPages(pipe[i].up.pages)
         ELSE pipe[i].minutesText = <<>>


\* ------------------------------------------- getMeetingLinks on richer listings
\* a minutes document listed under more than one day
SharedUrl == <<"/", "m", "/", "s", ".", "p", "d", "f">>
\* an entry of a Links array that has no FileTypeName
BadEntry == [hasFileTypeName |-> FALSE, FileTypeName |-> <<>>, Url |-> <<"/", "b", ".", "p", "d", "f">>]

\* the answers of the listing source to the query for day d: failures, lists
\* without minutes, one or several records with minutes (the same document
\* twice, a document also listed under another day), and lists holding a
\* record without Links or an entry without FileTypeName
LocAnswers(d) ==
  { DayNetError, DayNotOk, DayNotJson, DayJsonObject, DayJson(<<>>),
    DayJson(<< AgendaMeeting >>),
    DayJson(<< MinutesMeeting(MinutesUrl(d)) >>),
    DayJson(<< MinutesMeeting(SharedUrl) >>),
    DayJson(<< MinutesMeeting(MinutesUrl(d)), MinutesMeeting(MinutesUrl(d)) >>),
    DayJson(<< MinutesMeeting(MinutesUrl(d)), MinutesMeeting(SharedUrl),
               MinutesMeeting(MinutesUrl(d)) >>),
    DayJson(<< MalformedMeeting, MinutesMeeting(MinutesUrl(d)) >>),
    DayJson(<< MinutesMeeting(MinutesUrl(d)), MalformedMeeting,
               MinutesMeeting(SharedUrl) >>),
    DayJson(<< Meeting(<< BadEntry >>), MinutesMeeting(MinutesUrl(d)) >>) }

\* one per-day promise settles with an answer of the richer set (42-64)
LocDaySettles(d, resp) ==
  /\ resp \in LocAnswers(d)
  /\ hpc = "locating"
  /\ dayResp[d] = DayPending
  /\ dayResp' = [dayResp EXCEPT ![d] = resp]
  /\ links' = DayThen(links, FormattedDate(d), resp)
  /\ UNCHANGED << today, hpc, meetingLinks, pipe, responses, fetches, sel, drv >>

\* getMeetingLinks up to its return and the handler up to the launch of the
\* per-link callbacks
NextLoc ==
  \/ \E d \in Days : \E resp \in LocAnswers(d) : LocDaySettles(d, resp)
  \/ LocatorReturnsNone
  \/ LocatorReturnsLinks

SpecLoc == Init /\ [][NextLoc]_vars

\* getMeetingLinks has returned
Located == hpc # "locating"

\* C16 as claimed: no two entries of the list getMeetingLinks returned have
\* the same url.
C16_LinksDeduplicated ==
  Located =>
    \A i, j \in 1..Len(meetingLinks) :
      i # j => meetingLinks[i].url # meetingLinks[j].url

\* the list is sorted by date descending
SortedByDateDesc(list) ==
  \A k \in 1..(Len(list) - 1) : StrGeq(list[k].date, list[k + 1].date)

\* C17 as claimed: the list getMeetingLinks returned is sorted by date
\* descending and holds no more than a fixed maximum of links, and no more
\* callbacks than that are launched.
C17_SortedAndCapped ==
  Located =>
    /\ SortedByDateDesc(meetingLinks)
    /\ Len(meetingLinks) <= SliceLimit
    /\ Len(pipe) <= SliceLimit

\* the number of records with minutes the listing answered for day d, up to
\* the first record that makes the loop throw
RECURSIVE FoundOn(_)
FoundOn(d) ==
  IF d \notin Days THEN 0
  ELSE Len(DayThen(<<>>, FormattedDate(d), dayResp[d])) + FoundOn(d + 1)

\* C17, amended: the list getMeetingLinks returned is sorted by date
\* descending and is not capped: it holds one link for every record with
\* minutes that the day queries found, and one callback is launched per link.
C17_SortedNotCapped ==
  Located =>
    /\ SortedByDateDesc(meetingLinks)
    /\ Len(meetingLinks) = FoundOn(0)
    /\ Len(pipe) = Len(meetingLinks)

C17_Witness ==
  /\ Located
  /\ Len(meetingLinks) > SliceLimit
  /\ Len(pipe) = Len(meetingLinks)
  /\ meetingLinks[1].date # meetingLinks[Len(meetingLinks)].date


\* --------------------------------------------- fetchDrivePdf (part_003:19-78)
\* the character class [A-Za-z0-9_-]
IsIdChar(c) ==
  \/ \E k \in 1..Len(UpperChars) : UpperChars[k] = c
  \/ \E k \in 1..Len(LowerChars) : LowerChars[k] = c
  \/ \E k \in 1..Len(DigitChars) : DigitChars[k] = c
  \/ c \in {"_", "-"}

\* s holds p at position i
HasAt(s, i, p) ==
  i >= 1 /\ i + Len(p) - 1 <= Len(s) /\ SubSeq(s, i, i + Len(p) - 1) = p

\* the end of the longest run of class characters that starts at i (i - 1
\* when s[i] is not in the class)
RECURSIVE RunEnd(_, _)
RunEnd(s, i) ==
  IF i <= Len(s) /\ IsIdChar(s[i]) THEN RunEnd(s, i + 1) ELSE i - 1

\* the match of  prefix([A-Za-z0-9_-]+)suffix  at position i; the suffixes
\* used begin with a character outside the class, so the greedy run decides
MatchAt(s, i, prefix, suffix) ==
  LET b == i + Len(prefix)
      e == RunEnd(s, b)
  IN IF HasAt(s, i, prefix) /\ e >= b /\ HasAt(s, e + 1, suffix)
     THEN [found |-> TRUE, cap |-> SubSeq(s, b, e)]
     ELSE [found |-> FALSE, cap |-> <<>>]

\* s.match(/(p1|p2|..)([A-Za-z0-9_-]+)suffix/): the leftmost match
Match(s, prefixes, suffix) ==
  LET hits == { i \in 1..Len(s) :
                  \E p \in prefixes : MatchAt(s, i, p, suffix).found }
  IN IF hits = {} THEN [found |-> FALSE, cap |-> <<>>]
     ELSE LET i == CHOOSE i \in hits : \A j \in hits : i <= j
              p == CHOOSE p \in prefixes : MatchAt(s, i, p, suffix).found
          IN MatchAt(s, i, p, suffix)

\* lines 32-35: idMatch and fileId
FileId(link) ==
  LET m == Match(link, { <<"/", "d", "/">> }, <<"/">>)
  IN IF m.found THEN m ELSE Match(link, { <<"?", "i", "d", "=">>, <<"&", "i", "d", "=">> }, <<>>)

\* line 42
BaseUrl(fileId) == <<"h", "t", "t", "p", "s", ":", "/", "/", "d", "r", "i", "v", "e", ".", "g", "o", "o", "g", "l", "e", ".", "c", "o", "m", "/", "u", "c", "?", "e", "x", "p", "o", "r", "t", "=", "d", "o", "w", "n", "l", "o", "a", "d", "&", "i", "d", "=">> \o fileId

\* .replace(/&amp;/g, '&'), and the decoding of &amp; in an attribute value
RECURSIVE ReplaceAmp(_)
ReplaceAmp(s) ==
  IF s = <<>> THEN <<>>
  ELSE IF HasAt(s, 1, <<"&", "a", "m", "p", ";">>)
       THEN <<"&">> \o ReplaceAmp(SubSeq(s, 6, Len(s)))
  ELSE << Head(s) >> \o ReplaceAmp(Tail(s))

\* how the pages of the model write the download anchor
AnchorOpen == <<"<", "a", " ", "i", "d", "=", "\"", "u", "c", "-", "d", "o", "w", "n", "l", "o", "a", "d", "-", "l", "i", "n", "k", "\"", " ", "h", "r", "e", "f", "=", "\"">>

\* $('a#uc-download-link').attr('href') (line 54): the decoded href of the
\* first such anchor
AnchorHref(html) ==
  LET starts == { i \in 1..Len(html) : HasAt(html, i, AnchorOpen) }
      b == (CHOOSE i \in starts : \A j \in starts : i <= j) + Len(AnchorOpen)
      ends == { j \in b..Len(html) : html[j] = "\"" }
  IN IF starts = {} \/ ends = {} THEN [found |-> FALSE, href |-> <<>>]
     ELSE [found |-> TRUE,
           href |-> ReplaceAmp(
                      SubSeq(html, b, (CHOOSE j \in ends : \A k \in ends : j <= k) - 1))]

\* lines 57-63: the fallback to a confirm= token that is followed by the id
TokenHref(html, fileId) ==
  LET m1 == Match(html, { <<"c", "o", "n", "f", "i", "r", "m", "=">> }, <<"&", "a", "m", "p", ";", "i", "d", "=">>)
      m == IF m1.found THEN m1 ELSE Match(html, { <<"c", "o", "n", "f", "i", "r", "m", "=">> }, <<"&", "i", "d", "=">>)
  IN IF m.found
     THEN [found |-> TRUE,
           href |-> <<"/", "u", "c", "?", "e", "x", "p", "o", "r", "t", "=", "d", "o", "w", "n", "l", "o", "a", "d", "&", "c", "o", "n", "f", "i", "r", "m", "=">> \o m.cap \o <<"&", "i", "d", "=">> \o fileId]
     ELSE [found |-> FALSE, href |-> <<>>]

\* lines 54-63: dlHref
DlHref(html, fileId) ==
  LET a == AnchorHref(html)
  IN IF a.found /\ a.href # <<>> THEN a ELSE TokenHref(html, fileId)

\* lines 67-70
DownloadUrl(dlHref) ==
  IF StartsWith(dlHref, <<"h", "t", "t", "p">>) THEN ReplaceAmp(dlHref)
  ELSE <<"h", "t", "t", "p", "s", ":", "/", "/", "d", "r", "i", "v", "e", ".", "g", "o", "o", "g", "l", "e", ".", "c", "o", "m">> \o ReplaceAmp(dlHref)


\* ------------------------------------- handler of part_003 (lines 80-170)
\* /\.pdf($|\?)/i.test(href)
IsPdfHref(href) ==
  \E i \in 1..Len(href) :
    /\ HasAt(ToLowerCase(href), i, <<".", "p", "d", "f">>)
    /\ (i + 4 > Len(href) \/ href[i + 4] = "?")

\* /drive\.google\.com\/file\/d\/[A-Za-z0-9_-]+/.test(href)
IsDriveFile(href) == Match(href, { <<"d", "r", "i", "v", "e", ".", "g", "o", "o", "g", "l", "e", ".", "c", "o", "m", "/", "f", "i", "l", "e", "/", "d", "/">> }, <<>>).found

\* lines 96-102: the hrefs of the page that are kept, in page order
RECURSIVE Scrape(_)
Scrape(hrefs) ==
  IF hrefs = <<>> THEN <<>>
  ELSE (IF IsPdfHref(Trim(Head(hrefs))) \/ IsDriveFile(Trim(Head(hrefs)))
        THEN << Trim(Head(hrefs)) >> ELSE <<>>)
       \o Scrape(Tail(hrefs))

\* the classification of line 115 by an id parameter instead of the host
IsDriveLinkById(href) == Includes(href, <<"i", "d", "=">>)

\* line 115: href.includes('drive.google.com')
IsDriveLink(href) == Includes(href, <<"d", "r", "i", "v", "e", ".", "g", "o", "o", "g", "l", "e", ".", "c", "o", "m">>)

\* !ct.includes('pdf') && !ct.includes('octet-stream') on the lowercased type
NeitherPdfNorOctet(ct) ==
  ~Includes(ToLowerCase(ct), <<"p", "d", "f">>) /\ ~Includes(ToLowerCase(ct), <<"o", "c", "t", "e", "t", "-", "s", "t", "r", "e", "a", "m">>)

\* line 45: fetchDrivePdf reads the body as a page
ReadAsPage(ct) == NeitherPdfNorOctet(ct)

\* the handler without the test of lines 122-126
SkippedByTypeNever(ct) == FALSE

\* lines 122-126: the handler skips the link for its content type
SkippedByType(ct) == NeitherPdfNorOctet(ct)

\* End of the match of /\r?\n{2,}/ that starts at position i of s, or 0
NewlinesMatchEnd(s, i) ==
  LET b == IF s[i] = "\r" THEN i + 1 ELSE i
      ends == { j \in (b + 1)..Len(s) : \A k \in b..j : s[k] = "\n" }
  IN IF ends = {} THEN 0 ELSE CHOOSE j \in ends : \A k \in ends : k <= j

\* text.split(/\r?\n{2,}/)
RECURSIVE SplitNewlinesFrom(_, _, _)
SplitNewlinesFrom(s, start, i) ==
  IF i > Len(s) THEN << SubSeq(s, start, Len(s)) >>
  ELSE LET e == NewlinesMatchEnd(s, i)
       IN IF e = 0 THEN SplitNewlinesFrom(s, start, i + 1)
          ELSE << SubSeq(s, start, i - 1) >> \o SplitNewlinesFrom(s, e + 1, e + 1)

\* lines 135-140: what one document adds to collected
RECURSIVE HousingOf(_)
HousingOf(paras) ==
  IF paras = <<>> THEN <<>>
  ELSE (IF Includes(ToLowerCase(Head(paras)), <<"h", "o", "u", "s", "i", "n", "g">>)
        THEN Trim(Head(paras)) \o <<"\n", "\n">> ELSE <<>>)
       \o HousingOf(Tail(paras))

\* what a server answers to one request: html is the body read as text, text
\* what pdfParse extracts from the body when it parses
SrvNetError ==
  [net |-> "error", ok |-> FALSE, ct |-> <<>>, html |-> <<>>, parses |-> FALSE, text |-> <<>>]
SrvNotFound ==
  [net |-> "ok", ok |-> FALSE, ct |-> <<"t", "e", "x", "t", "/", "h", "t", "m", "l">>, html |-> <<"<", "p", ">", "4", "0", "4", "<", "/", "p", ">">>,
   parses |-> FALSE, text |-> <<>>]
SrvHtml(html) ==
  [net |-> "ok", ok |-> TRUE, ct |-> <<"t", "e", "x", "t", "/", "h", "t", "m", "l", ";", " ", "c", "h", "a", "r", "s", "e", "t", "=", "u", "t", "f", "-", "8">>, html |-> html,
   parses |-> FALSE, text |-> <<>>]
SrvPdf(text) ==
  [net |-> "ok", ok |-> TRUE, ct |-> <<"a", "p", "p", "l", "i", "c", "a", "t", "i", "o", "n", "/", "p", "d", "f">>, html |-> <<>>,
   parses |-> TRUE, text |-> text]
SrvOctet ==
  [net |-> "ok", ok |-> TRUE, ct |-> <<"A", "p", "p", "l", "i", "c", "a", "t", "i", "o", "n", "/", "O", "c", "t", "e", "t", "-", "S", "t", "r", "e", "a", "m">>, html |-> <<>>,
   parses |-> FALSE, text |-> <<>>]

\* the responses of the handler
DrvOk(summaries, message) ==
  [status |-> 200, summaries |-> summaries, message |-> message, error |-> <<>>]
DrvError(error) ==
  [status |-> 500, summaries |-> <<>>, message |-> <<>>, error |-> error]

\* lines 146-150 and the request of line 153
AfterLoop(d) ==
  IF Trim(d.collected) = <<>>
  THEN [d EXCEPT !.pc = "responded",
                 !.sent = Append(d.sent, DrvOk(<<>>, <<"N", "o", " ", "h", "o", "u", "s", "i", "n", "g", " ", "m", "e", "n", "t", "i", "o", "n", "s", " ", "f", "o", "u", "n", "d", ".">>))]
  ELSE [d EXCEPT !.pc = "gemini"]

\* the loop of line 113 arrives at link k: lines 115-117 and, for a share
\* link, lines 32-45 of fetchDrivePdf, up to the first await
IssueLink(d, k) ==
  IF k > Len(d.rawLinks) THEN AfterLoop([d EXCEPT !.idx = k])
  ELSE LET href == d.rawLinks[k]
           id == FileId(href)
       IN IF IsDriveLink(href) /\ id.found
          THEN [d EXCEPT !.idx = k, !.pc = "first", !.fileId = id.cap,
                  !.requests = Append(d.requests,
                     [link |-> k, kind |-> "base", url |-> BaseUrl(id.cap)])]
          ELSE [d EXCEPT !.idx = k, !.pc = "plain", !.fileId = <<>>,
                  !.requests = Append(d.requests,
                     [link |-> k, kind |-> "plain", url |-> href])]

\* lines 119-140 for the response resp of link d.idx, and on to the next link
HandleResp(d, resp) ==
  LET e == [d EXCEPT !.got = Append(d.got, resp)]
  IN IF resp.net = "error" THEN IssueLink(e, d.idx + 1)
     ELSE IF ~resp.ok THEN IssueLink(e, d.idx + 1)
     ELSE IF SkippedByType(resp.ct) THEN IssueLink(e, d.idx + 1)
     ELSE IF ~resp.parses
          THEN IssueLink([e EXCEPT !.pdfParsed = @ \cup {d.idx}], d.idx + 1)
     ELSE IssueLink(
            [e EXCEPT !.pdfParsed = @ \cup {d.idx},
                      !.collected = @ \o HousingOf(SplitNewlinesFrom(resp.text, 1, 1))],
            d.idx + 1)

\* fetchDrivePdf lines 44-77 for the first response resp
AfterFirst(d, resp) ==
  IF resp.net = "error" THEN HandleResp(d, resp)
  ELSE IF ~ReadAsPage(resp.ct) THEN HandleResp(d, resp)
  ELSE LET e == [d EXCEPT !.tokenParsed = @ \cup {d.idx}]
           dl == DlHref(resp.html, d.fileId)
       IN IF dl.found /\ dl.href # <<>>
          THEN [e EXCEPT !.pc = "follow", !.got = Append(d.got, resp),
                  !.requests = Append(d.requests,
                     [link |-> d.idx, kind |-> "follow", url |-> DownloadUrl(dl.href)])]
          ELSE HandleResp(e, resp)


\* the hrefs of the anchors of the materials page
HDirect == <<"h", "t", "t", "p", "s", ":", "/", "/", "x", ".", "o", "r", "g", "/", "m", ".", "p", "d", "f">>
HDirectId == <<" ", "h", "t", "t", "p", "s", ":", "/", "/", "x", ".", "o", "r", "g", "/", "M", ".", "P", "D", "F", "?", "i", "d", "=", "7">>
HDrive == <<"h", "t", "t", "p", "s", ":", "/", "/", "d", "r", "i", "v", "e", ".", "g", "o", "o", "g", "l", "e", ".", "c", "o", "m", "/", "f", "i", "l", "e", "/", "d", "/", "F", "1", "/", "v", "i", "e", "w">>
HDriveBare == <<"h", "t", "t", "p", "s", ":", "/", "/", "d", "r", "i", "v", "e", ".", "g", "o", "o", "g", "l", "e", ".", "c", "o", "m", "/", "f", "i", "l", "e", "/", "d", "/", "F", "1">>
HOther == <<"/", "a", "b", "o", "u", "t", ".", "h", "t", "m", "l">>

\* what the materials page answers
MatNetError == [net |-> "error", ok |-> FALSE, hrefs |-> <<>>]
MatNotOk == [net |-> "ok", ok |-> FALSE, hrefs |-> <<>>]
MatPage(hrefs) == [net |-> "ok", ok |-> TRUE, hrefs |-> hrefs]

MaterialsAnswers ==
  { MatNetError, MatNotOk, MatPage(<<>>), MatPage(<< HOther >>),
    MatPage(<< HDirect >>), MatPage(<< HDrive, HOther, HDirect >>),
    MatPage(<< HDirectId, HDrive >>), MatPage(<< HDriveBare, HDirect >>) }

\* the confirmation pages of the share host: with the download anchor
\* (relative and absolute), with the token in a form action or in a script,
\* with the token followed by another parameter, and without any token
PageAnchor ==
  <<"<", "a", " ", "i", "d", "=", "\"", "u", "c", "-", "d", "o", "w", "n", "l", "o", "a", "d", "-", "l", "i", "n", "k", "\"", " ", "h", "r", "e", "f", "=", "\"", "/", "u", "c", "?", "e", "x", "p", "o", "r", "t", "=", "d", "o", "w", "n", "l", "o", "a", "d", "&", "a", "m", "p", ";", "c", "o", "n", "f", "i", "r", "m", "=", "t", "0", "k", "&", "a", "m", "p", ";", "i", "d", "=", "F", "1", "\"", ">">>
PageAnchorAbs ==
  <<"<", "a", " ", "i", "d", "=", "\"", "u", "c", "-", "d", "o", "w", "n", "l", "o", "a", "d", "-", "l", "i", "n", "k", "\"", " ", "h", "r", "e", "f", "=", "\"", "h", "t", "t", "p", "s", ":", "/", "/", "d", "l", ".", "g", "o", "o", "g", "l", "e", ".", "c", "o", "m", "/", "f", "?", "c", "o", "n", "f", "i", "r", "m", "=", "t", "0", "k", "&", "a", "m", "p", ";", "i", "d", "=", "F", "1", "\"", ">">>
PageForm == <<"<", "f", "o", "r", "m", " ", "a", "c", "t", "i", "o", "n", "=", "\"", "/", "u", "c", "?", "e", "x", "p", "o", "r", "t", "=", "d", "o", "w", "n", "l", "o", "a", "d", "&", "a", "m", "p", ";", "c", "o", "n", "f", "i", "r", "m", "=", "t", "-", "K", "&", "a", "m", "p", ";", "i", "d", "=", "F", "1", "\"", ">">>
PageScript == <<"u", "=", "'", "/", "u", "c", "?", "c", "o", "n", "f", "i", "r", "m", "=", "t", "_", "k", "&", "i", "d", "=", "F", "1", "'">>
PageUuid == <<"<", "f", "o", "r", "m", " ", "a", "c", "t", "i", "o", "n", "=", "\"", "/", "u", "c", "?", "i", "d", "=", "F", "1", "&", "a", "m", "p", ";", "c", "o", "n", "f", "i", "r", "m", "=", "t", "0", "k", "&", "a", "m", "p", ";", "u", "u", "i", "d", "=", "u", "1", "\"", ">">>
PageQuota == <<"<", "p", ">", "Q", "u", "o", "t", "a", " ", "e", "x", "c", "e", "e", "d", "e", "d", "<", "/", "p", ">">>

TextHousing == <<"H", "o", "u", "s", "i", "n", "g", " ", "p", "l", "a", "n", " ", "\n", "\n", "p", "a", "r", "k", "i", "n", "g", "\r", "\n", "\n", "\n", " ", "f", "a", "i", "r", " ", "H", "O", "U", "S", "I", "N", "G">>
TextRoads == <<"r", "o", "a", "d", "s", "\n", "\n", "b", "r", "i", "d", "g", "e", "s">>

FirstAnswers ==
  { SrvNetError, SrvNotFound, SrvPdf(TextHousing), SrvHtml(PageAnchor),
    SrvHtml(PageAnchorAbs), SrvHtml(PageForm), SrvHtml(PageScript),
    SrvHtml(PageUuid), SrvHtml(PageQuota) }

FollowAnswers ==
  { SrvNetError, SrvNotFound, SrvPdf(TextHousing), SrvPdf(TextRoads),
    SrvHtml(PageForm) }

PlainAnswers ==
  { SrvNetError, SrvNotFound, SrvPdf(TextHousing), SrvPdf(TextRoads), SrvOctet,
    SrvHtml(PageQuota) }

\* what the summarization endpoint answers: the request fails, the body is
\* not JSON, or it is JSON with or without a first candidate
GemNetError == [net |-> "error", json |-> FALSE, hasOutput |-> FALSE, output |-> <<>>]
GemNotJson == [net |-> "ok", json |-> FALSE, hasOutput |-> FALSE, output |-> <<>>]
GemNoCandidate == [net |-> "ok", json |-> TRUE, hasOutput |-> FALSE, output |-> <<>>]
GemOutput(text) == [net |-> "ok", json |-> TRUE, hasOutput |-> TRUE, output |-> text]

GeminiAnswers ==
  { GemNetError, GemNotJson, GemNoCandidate, GemOutput(<<>>),
    GemOutput(<<"C", "o", "u", "n", "c", "i", "l", " ", "f", "u", "n", "d", "s", " ", "h", "o", "u", "s", "i", "n", "g", ".">>) }

InitDrive ==
  /\ today = <<2025, 1, 1>>
  /\ hpc = "idle"
  /\ dayResp = [d \in Days |-> DayPending]
  /\ links = <<>>
  /\ meetingLinks = <<>>
  /\ pipe = <<>>
  /\ responses = <<>>
  /\ fetches = 0
  /\ sel = [pc |-> "off"]
  /\ drv \in { [pc |-> "start", apiKey |-> k, rawLinks |-> <<>>, idx |-> 0,
                fileId |-> <<>>, requests |-> <<>>, got |-> <<>>,
                tokenParsed |-> {}, pdfParsed |-> {}, collected |-> <<>>,
                sent |-> <<>>] : k \in BOOLEAN }

otherVars ==
  << today, hpc, dayResp, links, meetingLinks, pipe, responses, fetches, sel >>

\* lines 84-91: the key check and the request for the materials page
DrvStart ==
  /\ drv.pc = "start"
  /\ drv' = IF ~drv.apiKey
            THEN [drv EXCEPT !.pc = "responded",
                    !.sent = Append(drv.sent, DrvError(<<"M", "i", "s", "s", "i", "n", "g", " ", "G", "E", "M", "I", "N", "I", "_", "A", "P", "I", "_", "K", "E", "Y", " ", "i", "n", " ", "e", "n", "v", ".">>))]
            ELSE [drv EXCEPT !.pc = "materials"]
  /\ UNCHANGED otherVars

\* lines 91-113: the materials page arrives, its links are scraped and the
\* loop starts with the first of them
DrvMaterials(ans) ==
  /\ drv.pc = "materials"
  /\ drv' = IF ans.net = "error"
            THEN [drv EXCEPT !.pc = "responded",
                    !.sent = Append(drv.sent, DrvError(<<"f", "e", "t", "c", "h", " ", "f", "a", "i", "l", "e", "d">>))]
            ELSE IF ~ans.ok
            THEN [drv EXCEPT !.pc = "responded",
                    !.sent = Append(drv.sent,
                               DrvError(<<"F", "a", "i", "l", "e", "d", " ", "t", "o", " ", "f", "e", "t", "c", "h", " ", "m", "a", "t", "e", "r", "i", "a", "l", "s", " ", "p", "a", "g", "e", ":", " ", "5", "0", "3">>))]
            ELSE IF Scrape(ans.hrefs) = <<>>
            THEN [drv EXCEPT !.pc = "responded",
                    !.sent = Append(drv.sent, DrvOk(<<>>, <<"N", "o", " ", "M", "i", "n", "u", "t", "e", "s", " ", "l", "i", "n", "k", "s", " ", "f", "o", "u", "n", "d", ".">>))]
            ELSE IssueLink([drv EXCEPT !.rawLinks = Scrape(ans.hrefs)], 1)
  /\ UNCHANGED otherVars

\* the first request of fetchDrivePdf settles (line 44)
DrvFirst(resp) ==
  /\ drv.pc = "first"
  /\ drv' = AfterFirst(drv, resp)
  /\ UNCHANGED otherVars

\* the follow-up request of fetchDrivePdf settles (line 73)
DrvFollow(resp) ==
  /\ drv.pc = "follow"
  /\ drv' = HandleResp(drv, resp)
  /\ UNCHANGED otherVars

\* a plain fetch settles (line 117, or line 38 for a share link without id)
DrvPlain(resp) ==
  /\ drv.pc = "plain"
  /\ drv' = HandleResp(drv, resp)
  /\ UNCHANGED otherVars

\* lines 153-169: the summarization request settles
DrvGemini(reply) ==
  /\ drv.pc = "gemini"
  /\ drv' = [drv EXCEPT !.pc = "responded",
               !.sent = Append(drv.sent,
                  IF reply.net = "error" THEN DrvError(<<"f", "e", "t", "c", "h", " ", "f", "a", "i", "l", "e", "d">>)
                  ELSE IF ~reply.json THEN DrvError(<<"i", "n", "v", "a", "l", "i", "d", " ", "j", "s", "o", "n">>)
                  ELSE IF reply.hasOutput /\ reply.output # <<>>
                       THEN DrvOk(<< reply.output >>, <<>>)
                  ELSE DrvOk(<< <<"N", "o", " ", "s", "u", "m", "m", "a", "r", "y", " ", "r", "e", "t", "u", "r", "n", "e", "d", ".">> >>, <<>>))]
  /\ UNCHANGED otherVars

NextDrive ==
  \/ DrvStart
  \/ \E ans \in MaterialsAnswers : DrvMaterials(ans)
  \/ \E resp \in FirstAnswers : DrvFirst(resp)
  \/ \E resp \in FollowAnswers : DrvFollow(resp)
  \/ \E resp \in PlainAnswers : DrvPlain(resp)
  \/ \E reply \in GeminiAnswers : DrvGemini(reply)

SpecDrive == InitDrive /\ [][NextDrive]_vars


\* the requests issued for link k, as positions of the request log
ReqsOf(k) == { n \in 1..Len(drv.requests) : drv.requests[n].link = k }

\* the loop has finished with link k
LinkDone(k) == drv.idx > k

\* the n-th request issued for link k, and the response it got
NthReq(k, n) ==
  CHOOSE r \in ReqsOf(k) : Cardinality({ q \in ReqsOf(k) : q < r }) = n - 1

\* C12: a link whose url does not name the share host gets exactly one
\* request, the plain fetch of its own url; its body is never read to look
\* for a token or a download link; and no second request follows.
C12_DirectNoNegotiation ==
  \A k \in 1..Len(drv.rawLinks) :
    ~Includes(drv.rawLinks[k], <<"d", "r", "i", "v", "e", ".", "g", "o", "o", "g", "l", "e", ".", "c", "o", "m">>) =>
      /\ k \notin drv.tokenParsed
      /\ Cardinality(ReqsOf(k)) <= 1
      /\ drv.idx >= k =>
           /\ Cardinality(ReqsOf(k)) = 1
           /\ drv.requests[NthReq(k, 1)].kind = "plain"
           /\ drv.requests[NthReq(k, 1)].url = drv.rawLinks[k]

C12_Witness ==
  /\ drv.pc = "responded"
  /\ Len(drv.rawLinks) = 2
  /\ ~Includes(drv.rawLinks[1], <<"d", "r", "i", "v", "e", ".", "g", "o", "o", "g", "l", "e", ".", "c", "o", "m">>)
  /\ Includes(drv.rawLinks[1], <<"i", "d", "=">>)
  /\ drv.got[1] = SrvHtml(PageQuota)
  /\ Cardinality(ReqsOf(2)) = 2

\* the page holds a confirmation token: confirm= and a value
ContainsToken(html) == Match(html, { <<"c", "o", "n", "f", "i", "r", "m", "=">> }, <<>>).found
TokenOf(html) == Match(html, { <<"c", "o", "n", "f", "i", "r", "m", "=">> }, <<>>).cap

\* the first response for link k is an html page that holds a token
FirstIsTokenPage(k) ==
  /\ ReqsOf(k) # {}
  /\ Len(drv.got) >= NthReq(k, 1)
  /\ drv.got[NthReq(k, 1)].net = "ok"
  /\ Includes(drv.got[NthReq(k, 1)].ct, <<"t", "e", "x", "t", "/", "h", "t", "m", "l">>)
  /\ ContainsToken(drv.got[NthReq(k, 1)].html)

\* C13 as claimed: for a share link whose first download response is an html
\* page holding a confirmation token, exactly one follow-up request is issued
\* and its url embeds that token, before fetchDrivePdf yields or fails.
C13_OneFollowUpWithToken ==
  \A k \in 1..Len(drv.rawLinks) :
    (IsDriveLink(drv.rawLinks[k]) /\ FileId(drv.rawLinks[k]).found
       /\ LinkDone(k) /\ FirstIsTokenPage(k)) =>
      /\ Cardinality(ReqsOf(k)) = 2
      /\ drv.requests[NthReq(k, 2)].kind = "follow"
      /\ Includes(drv.requests[NthReq(k, 2)].url,
                  <<"c", "o", "n", "f", "i", "r", "m", "=">> \o TokenOf(drv.got[NthReq(k, 1)].html))

\* the last response received for link k
LastGot(k) == drv.got[NthReq(k, Cardinality(ReqsOf(k)))]

\* C14: no link gets more than two requests; a link whose last response (the
\* one to the follow-up included) is an error or not a binary never reaches
\* pdfParse; and once the loop has ended every link has been requested, so a
\* link that could not be resolved did not stop the others.
C14_NegotiationTerminates ==
  /\ \A k \in 1..Len(drv.rawLinks) :
       /\ Cardinality(ReqsOf(k)) <= 2
       /\ (LinkDone(k) /\ (LastGot(k).net = "error" \/ ~LastGot(k).ok
                            \/ NeitherPdfNorOctet(LastGot(k).ct))) =>
            k \notin drv.pdfParsed
  /\ drv.pc \in {"gemini", "responded"} /\ drv.rawLinks # <<>> =>
       /\ \A k \in 1..Len(drv.rawLinks) : LinkDone(k) /\ ReqsOf(k) # {}
       /\ drv.sent # <<>> /\ drv.sent[1].status = 500 => Trim(drv.collected) # <<>>

C14_Witness ==
  /\ drv.pc = "responded"
  /\ Len(drv.rawLinks) = 2
  /\ Cardinality(ReqsOf(1)) = 2
  /\ drv.got[1] = SrvHtml(PageForm)
  /\ drv.got[2] = SrvHtml(PageForm)
  /\ drv.pdfParsed = {2}
  /\ drv.sent[1].status = 200 /\ Len(drv.sent[1].summaries) = 1


\* ------------------------------------ handler of part_002 (lines 153-284)
\* what drive.files.get with alt: 'media' answers: it rejects, or resolves
\* with the bytes of the file
SvcDenied == [net |-> "ok", ok |-> FALSE, parses |-> FALSE, text |-> <<>>]
SvcBytes(parses, text) == [net |-> "ok", ok |-> TRUE, parses |-> parses, text |-> text]

SvcAnswers == { SvcDenied, SvcBytes(FALSE, <<>>), SvcBytes(TRUE, TextHousing),
                SvcBytes(TRUE, TextRoads) }

PublicAnswers == { SrvNetError, SrvNotFound, SrvPdf(TextHousing), SrvHtml(PageQuota) }

DirectAnswers == { SrvNetError, SrvNotFound, SrvPdf(TextHousing), SrvOctet }

\* the environment: GSA_KEY_B64 ("missing", "invalid" or "ok"), whether a
\* summarization key is set, and whether DRIVE_API_KEY is set
AuthEnvs ==
  { [b64 |-> "missing", apiKey |-> TRUE, publicKey |-> FALSE],
    [b64 |-> "invalid", apiKey |-> TRUE, publicKey |-> TRUE],
    [b64 |-> "ok", apiKey |-> FALSE, publicKey |-> TRUE],
    [b64 |-> "ok", apiKey |-> TRUE, publicKey |-> FALSE],
    [b64 |-> "ok", apiKey |-> TRUE, publicKey |-> TRUE] }

\* lines 260-264 and the request of line 267
AuthAfterLoop(d) ==
  IF Trim(d.collected) = <<>>
  THEN [d EXCEPT !.pc = "responded",
                 !.sent = Append(d.sent, DrvOk(<<>>, <<"N", "o", " ", "h", "o", "u", "s", "i", "n", "g", " ", "f", "o", "u", "n", "d", ".">>))]
  ELSE [d EXCEPT !.pc = "gemini"]

\* the loop of line 206 arrives at link k: lines 208-226 and 240-242 up to
\* the first await; a share link without file id throws and is skipped
RECURSIVE AuthIssueLink(_, _)
AuthIssueLink(d, k) ==
  IF k > Len(d.rawLinks) THEN AuthAfterLoop([d EXCEPT !.idx = k])
  ELSE LET href == d.rawLinks[k]
           id == FileId(href)
       IN IF ~IsDriveLink(href)
          THEN [d EXCEPT !.idx = k, !.pc = "plain", !.fileId = <<>>,
                  !.requests = Append(d.requests,
                     [link |-> k, kind |-> "plain", fileId |-> <<>>, url |-> href])]
          ELSE IF ~id.found THEN AuthIssueLink(d, k + 1)
          ELSE [d EXCEPT !.idx = k, !.pc = "svc", !.fileId = id.cap,
                  !.requests = Append(d.requests,
                     [link |-> k, kind |-> "media", fileId |-> id.cap, url |-> <<>>])]

\* lines 245-252: pdfParse of the buffer and the housing paragraphs, then on
\* to the next link; a parse failure is caught at line 253
AuthParse(d, parses, text) ==
  IF parses
  THEN AuthIssueLink(
         [d EXCEPT !.pdfParsed = @ \cup {d.idx},
                   !.collected = @ \o HousingOf(SplitNewlinesFrom(text, 1, 1))],
         d.idx + 1)
  ELSE AuthIssueLink([d EXCEPT !.pdfParsed = @ \cup {d.idx}], d.idx + 1)

\* line 229 with the fallback tried whether or not a key is configured
HasFallbackAlways(d) == TRUE

\* line 229: a public key is configured
HasFallback(d) == d.env.publicKey

\* lines 219-237: the authenticated download settles
AfterSvc(d, ans) ==
  LET e == [d EXCEPT !.got = Append(d.got, ans)]
  IN IF ans.ok THEN AuthParse(e, ans.parses, ans.text)
     ELSE IF ~HasFallback(d) THEN AuthIssueLink(e, d.idx + 1)
     ELSE [e EXCEPT !.pc = "public",
             !.requests = Append(d.requests,
                [link |-> d.idx, kind |-> "public", fileId |-> d.fileId,
                 url |-> <<"h", "t", "t", "p", "s", ":", "/", "/", "w", "w", "w", ".", "g", "o", "o", "g", "l", "e", "a", "p", "i", "s", ".", "c", "o", "m", "/", "d", "r", "i", "v", "e", "/", "v", "3", "/", "f", "i", "l", "e", "s", "/">>
                         \o d.fileId \o <<"?", "a", "l", "t", "=", "m", "e", "d", "i", "a", "&", "k", "e", "y", "=">>])]

\* lines 233-236 and 241-244: a fetch settles; only r.ok is tested
AfterFetch(d, resp) ==
  LET e == [d EXCEPT !.got = Append(d.got, resp)]
  IN IF resp.net = "error" \/ ~resp.ok THEN AuthIssueLink(e, d.idx + 1)
     ELSE AuthParse(e, resp.parses, resp.text)

InitAuth ==
  /\ today = <<2025, 1, 1>>
  /\ hpc = "idle"
  /\ dayResp = [d \in Days |-> DayPending]
  /\ links = <<>>
  /\ meetingLinks = <<>>
  /\ pipe = <<>>
  /\ responses = <<>>
  /\ fetches = 0
  /\ sel = [pc |-> "off"]
  /\ drv \in { [pc |-> "start", env |-> e, rawLinks |-> <<>>, idx |-> 0,
                fileId |-> <<>>, requests |-> <<>>, got |-> <<>>,
                pdfParsed |-> {}, collected |-> <<>>, sent |-> <<>>] : e \in AuthEnvs }

\* lines 157-187: the guards on the environment and the request for the
\* materials page
AuthStart ==
  /\ drv.pc = "start"
  /\ drv' = IF drv.env.b64 = "missing"
            THEN [drv EXCEPT !.pc = "responded",
                    !.sent = Append(drv.sent, DrvError(<<"G", "S", "A", "_", "K", "E", "Y", "_", "B", "6", "4", " ", "n", "o", "t", " ", "s", "e", "t">>))]
            ELSE IF drv.env.b64 = "invalid"
            THEN [drv EXCEPT !.pc = "responded",
                    !.sent = Append(drv.sent, DrvError(<<"I", "n", "v", "a", "l", "i", "d", " ", "G", "S", "A", "_", "K", "E", "Y", "_", "B", "6", "4">>))]
            ELSE IF ~drv.env.apiKey
            THEN [drv EXCEPT !.pc = "responded",
                    !.sent = Append(drv.sent, DrvError(<<"G", "E", "M", "I", "N", "I", "_", "A", "P", "I", "_", "K", "E", "Y", " ", "n", "o", "t", " ", "s", "e", "t">>))]
            ELSE [drv EXCEPT !.pc = "materials"]
  /\ UNCHANGED otherVars

\* lines 186-208: the materials page arrives and the loop starts
AuthMaterials(ans) ==
  /\ drv.pc = "materials"
  /\ drv' = IF ans.net = "error"
            THEN [drv EXCEPT !.pc = "responded",
                    !.sent = Append(drv.sent, DrvError(<<"f", "e", "t", "c", "h", " ", "f", "a", "i", "l", "e", "d">>))]
            ELSE IF ~ans.ok
            THEN [drv EXCEPT !.pc = "responded",
                    !.sent = Append(drv.sent, DrvError(<<"M", "a", "t", "e", "r", "i", "a", "l", "s", " ", "f", "e", "t", "c", "h", " ", "5", "0", "3">>))]
            ELSE IF Scrape(ans.hrefs) = <<>>
            THEN [drv EXCEPT !.pc = "responded",
                    !.sent = Append(drv.sent, DrvOk(<<>>, <<"N", "o", " ", "M", "i", "n", "u", "t", "e", "s", " ", "f", "o", "u", "n", "d", ".">>))]
            ELSE AuthIssueLink([drv EXCEPT !.rawLinks = Scrape(ans.hrefs)], 1)
  /\ UNCHANGED otherVars

AuthSvc(ans) ==
  /\ drv.pc = "svc"
  /\ drv' = AfterSvc(drv, ans)
  /\ UNCHANGED otherVars

AuthPublic(resp) ==
  /\ drv.pc = "public"
  /\ drv' = AfterFetch(drv, resp)
  /\ UNCHANGED otherVars

AuthPlain(resp) ==
  /\ drv.pc = "plain"
  /\ drv' = AfterFetch(drv, resp)
  /\ UNCHANGED otherVars

\* lines 267-279: the summarization request settles (?? keeps an empty output)
AuthGemini(reply) ==
  /\ drv.pc = "gemini"
  /\ drv' = [drv EXCEPT !.pc = "responded",
               !.sent = Append(drv.sent,
                  IF reply.net = "error" THEN DrvError(<<"f", "e", "t", "c", "h", " ", "f", "a", "i", "l", "e", "d">>)
                  ELSE IF ~reply.json THEN DrvError(<<"i", "n", "v", "a", "l", "i", "d", " ", "j", "s", "o", "n">>)
                  ELSE IF reply.hasOutput THEN DrvOk(<< reply.output >>, <<>>)
                  ELSE DrvOk(<< <<"N", "o", " ", "s", "u", "m", "m", "a", "r", "y", " ", "r", "e", "t", "u", "r", "n", "e", "d", ".">> >>, <<>>))]
  /\ UNCHANGED otherVars

NextAuth ==
  \/ AuthStart
  \/ \E ans \in MaterialsAnswers : AuthMaterials(ans)
  \/ \E ans \in SvcAnswers : AuthSvc(ans)
  \/ \E resp \in PublicAnswers : AuthPublic(resp)
  \/ \E resp \in DirectAnswers : AuthPlain(resp)
  \/ \E reply \in GeminiAnswers : AuthGemini(reply)

SpecAuth == InitAuth /\ [][NextAuth]_vars

\* link k is a share link with a file id
IsShareLink(k) == IsDriveLink(drv.rawLinks[k]) /\ FileId(drv.rawLinks[k]).found

\* C21 as claimed: a media request for a file id is issued only after a
\* metadata request for the same id, issued earlier in the invocation, has
\* succeeded.
C21_MetadataBeforeMedia ==
  \A n \in 1..Len(drv.requests) :
    drv.requests[n].kind = "media" =>
      \E m \in 1..(n - 1) :
        /\ drv.requests[m].kind = "metadata"
        /\ drv.requests[m].fileId = drv.requests[n].fileId
        /\ drv.got[m].ok

\* C22: for a share link the first request is the authenticated download; a
\* request with the public key is issued only right after the authenticated
\* download of the same file failed, and only when a public key is
\* configured; without one, a failed authenticated download is the link's
\* only request, nothing of it is parsed, and the loop goes on to the end.
C22_AuthenticatedFirst ==
  /\ \A k \in 1..Len(drv.rawLinks) :
       (IsShareLink(k) /\ ReqsOf(k) # {}) =>
         /\ drv.requests[NthReq(k, 1)].kind = "media"
         /\ Cardinality(ReqsOf(k)) <= 2
         /\ Cardinality(ReqsOf(k)) = 2 =>
              /\ drv.requests[NthReq(k, 2)].kind = "public"
              /\ NthReq(k, 2) = NthReq(k, 1) + 1
              /\ ~drv.got[NthReq(k, 1)].ok
              /\ drv.env.publicKey
         /\ (LinkDone(k) /\ ~drv.got[NthReq(k, 1)].ok /\ ~drv.env.publicKey) =>
              /\ Cardinality(ReqsOf(k)) = 1
              /\ k \notin drv.pdfParsed
  /\ \A n \in 1..Len(drv.requests) :
       drv.requests[n].kind = "public" => IsShareLink(drv.requests[n].link)
  /\ (drv.pc \in {"gemini", "responded"} /\ drv.rawLinks # <<>>) =>
       /\ drv.idx > Len(drv.rawLinks)
       /\ \A k \in 1..Len(drv.rawLinks) :
            IsShareLink(k) \/ ~IsDriveLink(drv.rawLinks[k]) => ReqsOf(k) # {}
       /\ (drv.sent # <<>> /\ drv.sent[1].status = 500) => Trim(drv.collected) # <<>>

C22_Witness ==
  /\ drv.pc = "responded"
  /\ ~drv.env.publicKey
  /\ Len(drv.rawLinks) = 2
  /\ IsShareLink(1)
  /\ drv.got[1] = SvcDenied
  /\ Cardinality(ReqsOf(1)) = 1
  /\ drv.pdfParsed = {2}
  /\ drv.sent[1].status = 200 /\ Len(drv.sent[1].summaries) = 1


\* ------------------------------------------------------------ claims C23-C30

\* C23: getMeetingLinks has returned only when every per-day query has
\* settled; once the handler runs the per-link stage every callback has been
\* launched (one fetch issued per link) before any result is awaited; and the
\* handler has answered only when every callback has settled, whether its
\* link failed or not.
C23_FanOutFanIn ==
  /\ hpc # "locating" => AllDaysSettled
  /\ (hpc \in {"running", "responded"} /\ meetingLinks # <<>>) =>
       /\ Len(pipe) = Len(meetingLinks)
       /\ fetches = Len(meetingLinks)
  /\ (Len(responses) > 0 /\ meetingLinks # <<>>) =>
       \A i \in DOMAIN pipe : pipe[i].pc = "done"

C23_Witness ==
  /\ Responded
  /\ Len(pipe) = 2
  /\ \E i, j \in DOMAIN pipe :
       /\ pipe[i].up = NetError
       /\ pipe[j].calls = 1 /\ pipe[j].reply.throws

\* C30: every entry of a 200 list has a summary that is not empty and does
\* not start with "Error:", whatever the extractor gave and whether the
\* service answered a text, no text, or threw.
C30_SummaryNeverEmptyNorError ==
  (Responded /\ Sent.isList) =>
    \A k \in 1..Len(Sent.list) :
      /\ Sent.list[k].summary # <<>>
      /\ ~StartsWith(Sent.list[k].summary, ErrorPrefix)

C30_Witness ==
  /\ Responded /\ Sent.isList
  /\ Len(Sent.list) = 1
  /\ Sent.list[1].summary = NoSummaryText
  /\ \E i, j \in DOMAIN pipe :
       /\ pipe[i].calls = 1 /\ pipe[i].reply = AiNoText
       /\ pipe[j].calls = 1 /\ (pipe[j].reply.throws \/ pipe[j].reply = AiText(<<"E", "r", "r", "o", "r", ":", " ", "q", "u", "o", "t", "a">>))


\* the selector has left its loop
SelPastLoop == sel.pc \in {"call", "done"}

\* the length of the longest prefix of paras whose total length is within
\* the budget
LongestFit(paras) ==
  LET fits == { n \in 0..Len(paras) :
                  TotalLen(SubSeq(paras, 1, n)) <= MAX_EXCERPT_LENGTH }
  IN CHOOSE n \in fits : \A m \in fits : m <= n

\* C24: after the loop the excerpt is exactly the longest prefix of the
\* keyword-matching paragraphs whose lengths total at most the budget: the
\* first matching paragraph that would exceed it is left out whole, and so is
\* every matching paragraph after it, even one that would still fit.
C24_BudgetHalt ==
  SelPastLoop =>
    LET M == MatchingParagraphs(sel.minutesText)
        E == sel.st.relevantExcerpts
    IN /\ E = SubSeq(M, 1, LongestFit(M))
       /\ \A k \in (LongestFit(M) + 1)..Len(M) :
            \A j \in 1..Len(E) : E[j] # M[k] \/ \E i \in 1..LongestFit(M) : M[i] = M[k]

C24_Witness ==
  /\ SelPastLoop
  /\ sel.st.broke
  /\ Len(sel.st.relevantExcerpts) = 1
  /\ LET M == MatchingParagraphs(sel.minutesText)
     IN /\ Len(M) = 3
        /\ TotalLen(<< M[1], M[3] >>) <= MAX_EXCERPT_LENGTH
        /\ TotalLen(<< M[1], M[2] >>) > MAX_EXCERPT_LENGTH

\* C25 as claimed: every paragraph of the excerpt is the trimmed form of a
\* paragraph of the text and neither begins nor ends with white space.
C25_ExcerptParagraphsTrimmed ==
  SelPastLoop =>
    \A k \in 1..Len(sel.st.relevantExcerpts) :
      LET e == sel.st.relevantExcerpts[k]
      IN /\ e # <<>>
         /\ ~IsSpace(e[1]) /\ ~IsSpace(e[Len(e)])
         /\ \E j \in 1..Len(sel.paragraphs) : Trim(sel.paragraphs[j]) = e

\* a term of the keyword list occurs in the paragraph, in any letter case
HasTermAnyCase(para, k) == Includes(ToLowerCase(para), ToLowerCase(keywords[k]))

\* C27 as claimed: for every term of the keyword list, a paragraph that
\* holds the term in any letter case and no other term is kept in the
\* excerpt when the whole text is within the budget.
C27_EveryKeywordEffective ==
  (SelPastLoop /\ StrLen(sel.minutesText) <= MAX_EXCERPT_LENGTH) =>
    \A j \in 1..Len(sel.paragraphs) :
      \A k \in 1..Len(keywords) :
        (/\ HasTermAnyCase(sel.paragraphs[j], k)
         /\ \A l \in 1..Len(keywords) :
              l # k => ~HasTermAnyCase(sel.paragraphs[j], l)) =>
          \E n \in 1..Len(sel.st.relevantExcerpts) :
            sel.st.relevantExcerpts[n] = sel.paragraphs[j]

\* C28 as claimed: when at least one paragraph of the text matches the
\* keyword set, the excerpt is not empty and the service is called exactly
\* once; the sentinel is never returned without a call.
C28_MatchMeansOneCall ==
  (sel.pc = "done" /\ MatchingParagraphs(sel.minutesText) # <<>>) =>
    /\ sel.st.relevantExcerpts # <<>>
    /\ sel.calls = 1


\* a record with a Links array whose entries all have a FileTypeName
WellFormed(meeting) ==
  meeting.hasLinks /\ \A k \in 1..Len(meeting.Links) : meeting.Links[k].hasFileTypeName

\* C29 as claimed: whatever malformed records a day's answer holds, every
\* well-formed record with a minutes link, of that day and of every other
\* day, has its link in the list getMeetingLinks returned.
C29_OnlyMalformedRecordOmitted ==
  Located =>
    \A d \in Days :
      (dayResp[d].kind = "json" /\ dayResp[d].isArray) =>
        \A r \in 1..Len(dayResp[d].meetings) :
          (WellFormed(dayResp[d].meetings[r])
             /\ FindMinutes(dayResp[d].meetings[r].Links).found) =>
            \E i \in 1..Len(meetingLinks) :
              /\ meetingLinks[i].date = FormattedDate(d)
              /\ meetingLinks[i].url =
                   apiBaseUrl \o FindMinutes(dayResp[d].meetings[r].Links).Url


\* ------------------------------- the handler on days with several records
\* answers of the listing source: today's query fails or lists two meetings
\* with minutes, an earlier day lists none or one
OrderDayAnswers(d) ==
  IF d = 0
  THEN { DayNotOk,
         DayJson(<< MinutesMeeting(MinutesUrl(d)), MinutesMeeting(SharedUrl) >>) }
  ELSE { DayJson(<<>>), DayJson(<< MinutesMeeting(MinutesUrl(d)) >>) }

OrderDocAnswers ==
  { NetError, Pdf(<< PageParking >>), Pdf(<< PageHousing, PageParking >>) }

OrderReplies == { AiThrows, AiText(<<"C", "o", "u", "n", "c", "i", "l", " ", "a", "p", "p", "r", "o", "v", "e", "d", " ", "4", "0", " ", "u", "n", "i", "t", "s", ".">>) }

NextOrder ==
  \/ \E d \in Days : \E resp \in OrderDayAnswers(d) : DaySettles(d, resp)
  \/ LocatorReturnsNone
  \/ LocatorReturnsLinks
  \/ \E i \in DOMAIN pipe, up \in OrderDocAnswers : PdfSettles(i, up)
  \/ \E i \in DOMAIN pipe, reply \in OrderReplies : AiSettles(i, reply)
  \/ HandlerSettles

SpecOrder == Init /\ [][NextOrder]_vars

\* the links of the days from d on, most recent day first, each day's links
\* in the order of its records
RECURSIVE LinksInDayOrder(_)
LinksInDayOrder(d) ==
  IF d \notin Days THEN <<>>
  ELSE DayThen(<<>>, FormattedDate(d), dayResp[d]) \o LinksInDayOrder(d + 1)

\* the entries the links yield, each from the answers it received, in the
\* order of the links
RECURSIVE EntriesInLinkOrder(_)
EntriesInLinkOrder(i) ==
  IF i > Len(meetingLinks) THEN <<>>
  ELSE (IF AloneResult(i).isNull THEN <<>>
        ELSE << [date |-> AloneResult(i).date, summary |-> AloneResult(i).summary,
                 originalUrl |-> AloneResult(i).originalUrl] >>)
       \o EntriesInLinkOrder(i + 1)

\* C26: the list getMeetingLinks returns and the list the handler sends are
\* determined by the upstream answers alone, whatever the order in which the
\* day queries and the per-link callbacks settled: the links are those of the
\* days from the most recent on, each day's in the order of its records, and
\* the list holds the entries of the links in that order.
C26_DeterministicUnderInterleaving ==
  /\ Located => meetingLinks = LinksInDayOrder(0)
  /\ (Responded /\ Sent.isList /\ meetingLinks # <<>>) =>
       Sent.list = EntriesInLinkOrder(1)

C26_Witness ==
  /\ Responded /\ Sent.isList
  /\ Len(meetingLinks) = 3
  /\ Len(Sent.list) = 3
  /\ Sent.list[1].date = Sent.list[2].date
  /\ Sent.list[1].originalUrl # Sent.list[2].originalUrl
  /\ Sent.list[2].date # Sent.list[3].date
  /\ \E i \in DOMAIN pipe : pipe[i].calls = 1


====
